---- MODULE Spec2Model ----
\* A model of the streaming XML reader (XmlReader) of EmbeddedStAX / MiniSaxCpp:
\* the document-level state machine of XmlReader::parse(), driven by a client
\* that feeds an input document in arbitrary chunks with writeData(), calls
\* parse() and clear().  The token parsers the reader delegates to
\* (TokenTypeParser, ProcessingInstructionParser) and the token value types
\* (XmlDeclaration, ProcessingInstruction) are not part of the available
\* sources; they are modelled from their specified contracts.
\* The XML writer (XmlWriter) is modelled as a second object with its own
\* specification, WriterSpec: a client calls its operations in any order.
EXTENDS Integers, Sequences, FiniteSets, TLC

\* How many times the client may call clear() in one behaviour.
MaxClears == 1

-----------------------------------------------------------------------------
\* Characters.  A character is a string of length one; text is a sequence of
\* characters.

UpperChars ==
    <<"A","B","C","D","E","F","G","H","I","J","K","L","M",
      "N","O","P","Q","R","S","T","U","V","W","X","Y","Z">>

LowerChars ==
    <<"a","b","c","d","e","f","g","h","i","j","k","l","m",
      "n","o","p","q","r","s","t","u","v","w","x","y","z">>

DigitChars == {"0","1","2","3","4","5","6","7","8","9"}

Range(s) == {s[i] : i \in 1..Len(s)}

\* XML whitespace: #x20 #x9 #xD #xA.
isWhitespace(c) == c \in {" ", "\t", "\r", "\n"}

\* NameStartChar and NameChar of XML 1.0, restricted to ASCII.
isNameStartChar(c) == c \in Range(UpperChars) \cup Range(LowerChars) \cup {":", "_"}

isNameChar(c) == isNameStartChar(c) \/ c \in DigitChars \cup {"-", "."}

toLower(c) ==
    IF \E i \in 1..Len(UpperChars) : UpperChars[i] = c
    THEN LowerChars[CHOOSE i \in 1..Len(UpperChars) : UpperChars[i] = c]
    ELSE c

toLowerString(s) == [i \in 1..Len(s) |-> toLower(s[i])]

\* The number of leading whitespace characters of s.
LeadingWhitespace(s) ==
    CHOOSE n \in 0..Len(s) :
        /\ \A i \in 1..n : isWhitespace(s[i])
        /\ n = Len(s) \/ ~isWhitespace(s[n + 1])

\* The number of leading name characters of s.
LeadingNameChars(s) ==
    CHOOSE n \in 0..Len(s) :
        /\ \A i \in 1..n : isNameChar(s[i])
        /\ n = Len(s) \/ ~isNameChar(s[n + 1])

\* s without its first n characters.
Drop(s, n) == SubSeq(s, n + 1, Len(s))

\* s without its leading whitespace.
DropWhitespace(s) == Drop(s, LeadingWhitespace(s))

IsPrefix(p, s) == Len(p) <= Len(s) /\ SubSeq(s, 1, Len(p)) = p

\* The position of the first occurrence of the two characters a b in s, or 0.
Find2(s, a, b) ==
    LET hits == {k \in 1..(Len(s) - 1) : s[k] = a /\ s[k + 1] = b}
    IN  IF hits = {} THEN 0 ELSE CHOOSE k \in hits : \A j \in hits : k <= j

\* The position of the first occurrence of the character a in s, or 0.
Find1(s, a) ==
    LET hits == {k \in 1..Len(s) : s[k] = a}
    IN  IF hits = {} THEN 0 ELSE CHOOSE k \in hits : \A j \in hits : k <= j

-----------------------------------------------------------------------------
\* Input documents the client feeds to the reader.

\* The demo's input: an XML declaration immediately followed by a processing instruction.
\*   <?xml version='1.0' encoding='UTF-8' standalone='yes' ?><?pitarget      pidata       ?>
Doc_Demo ==
    <<"<","?","x","m","l"," ","v","e","r","s","i","o","n","=","'","1",".","0","'"," ","e","n",
      "c","o","d","i","n","g","=","'","U","T","F","-","8","'"," ","s","t","a","n","d","a","l",
      "o","n","e","=","'","y","e","s","'"," ","?",">","<","?","p","i","t","a","r","g","e","t",
      " "," "," "," "," "," ","p","i","d","a","t","a"," "," "," "," "," "," "," ","?",">">>

\* An XML declaration after the root element.
\*   <root/><?xml version='1.0'?>
Doc_DeclAfterRoot ==
    <<"<","r","o","o","t","/",">","<","?","x","m","l"," ","v","e","r","s","i","o","n","=","'",
      "1",".","0","'","?",">">>

\* Whitespace, then an XML declaration.
\*    <?xml version='1.0'?>
Doc_WsDecl ==
    <<" ","<","?","x","m","l"," ","v","e","r","s","i","o","n","=","'","1",".","0","'","?",">">>

\* A processing instruction, then an XML declaration.
\*   <?a?><?xml version='1.0'?>
Doc_PiDecl ==
    <<"<","?","a","?",">","<","?","x","m","l"," ","v","e","r","s","i","o","n","=","'","1",".",
      "0","'","?",">">>

\* Two XML declarations.
\*   <?xml version='1.0'?><?xml version='1.0'?>
Doc_DeclDecl ==
    <<"<","?","x","m","l"," ","v","e","r","s","i","o","n","=","'","1",".","0","'","?",">","<",
      "?","x","m","l"," ","v","e","r","s","i","o","n","=","'","1",".","0","'","?",">">>

\* An XML declaration whose version is not 1.0.
\*   <?xml version='1.1'?><?a?>
Doc_BadVersion ==
    <<"<","?","x","m","l"," ","v","e","r","s","i","o","n","=","'","1",".","1","'","?",">","<",
      "?","a","?",">">>

\* A complete well-formed document.
\*   <r><a/><b>x</b></r>
Doc_Tree ==
    <<"<","r",">","<","a","/",">","<","b",">","x","<","/","b",">","<","/","r",">">>

\* A root element opened and closed.
\*   <r></r>
Doc_OpenClose ==
    <<"<","r",">","<","/","r",">">>

\* An end tag that does not match the open start tag.
\*   <r></x>
Doc_Mismatch ==
    <<"<","r",">","<","/","x",">">>

\* A comment as the first item.
\*   <!-- c --><r/>
Doc_Comment ==
    <<"<","!","-","-"," ","c"," ","-","-",">","<","r","/",">">>

\* A DOCTYPE as the first item.
\*   <!DOCTYPE r><r/>
Doc_DocType ==
    <<"<","!","D","O","C","T","Y","P","E"," ","r",">","<","r","/",">">>

\* A processing instruction, a DOCTYPE and the root element.
\*   <?a?><!DOCTYPE r><r/>
Doc_PiDocType ==
    <<"<","?","a","?",">","<","!","D","O","C","T","Y","P","E"," ","r",">","<","r","/",">">>

\* Whitespace, then a start tag.
\*    <r>
Doc_WsRoot ==
    <<" ","<","r",">">>

\* A start tag as the first item.
\*   <r>
Doc_Root ==
    <<"<","r",">">>

\* Processing instructions separated by whitespace.
\*   <?a b?> \n<?c?> 
Doc_Pis ==
    <<"<","?","a"," ","b","?",">"," ","\n","<","?","c","?",">"," ">>

\* A CDATA section outside element content.
\*   <?a?><![CDATA[x]]>
Doc_CData ==
    <<"<","?","a","?",">","<","!","[","C","D","A","T","A","[","x","]","]",">">>

\* An end tag outside element content.
\*   </r>
Doc_EndTag ==
    <<"<","/","r",">">>

\* Text that starts no token.
\*   x<?a?>
Doc_Junk ==
    <<"x","<","?","a","?",">">>

\* A processing instruction whose target is followed by neither whitespace nor ?>.
\*   <?a?b?><?c?>
Doc_BadPi ==
    <<"<","?","a","?","b","?",">","<","?","c","?",">">>

\* A comment after a processing instruction.
\*   <?a?><!-- c -->
Doc_PiComment ==
    <<"<","?","a","?",">","<","!","-","-"," ","c"," ","-","-",">">>

\* An XML declaration followed by one whose version is not 1.0.
\*   <?xml version='1.0'?><?xml version='1.1'?>
Doc_DeclBadVersion ==
    <<"<","?","x","m","l"," ","v","e","r","s","i","o","n","=","'","1",".","0","'","?",">","<",
      "?","x","m","l"," ","v","e","r","s","i","o","n","=","'","1",".","1","'","?",">">>

\* Whitespace before a processing instruction.
\*    <?a?>
Doc_WsPi ==
    <<" ","<","?","a","?",">">>

Docs ==
    {Doc_Demo,
     Doc_DeclAfterRoot,
     Doc_WsDecl,
     Doc_PiDecl,
     Doc_DeclDecl,
     Doc_BadVersion,
     Doc_Tree,
     Doc_OpenClose,
     Doc_Mismatch,
     Doc_Comment,
     Doc_DocType,
     Doc_PiDocType,
     Doc_WsRoot,
     Doc_Root,
     Doc_Pis,
     Doc_CData,
     Doc_EndTag,
     Doc_Junk,
     Doc_BadPi,
     Doc_PiComment,
     Doc_DeclBadVersion,
     Doc_WsPi}

-----------------------------------------------------------------------------
\* Token values.

\* An XML declaration; the empty one is what XmlDeclaration::clear() leaves.
EmptyXmlDeclaration == [version |-> <<>>, encoding |-> <<>>, standalone |-> "None"]

\* A processing instruction; the empty one is what ProcessingInstruction::clear() leaves.
EmptyProcessingInstruction == [piTarget |-> <<>>, piData |-> <<>>]

\* A legal encoding name: [A-Za-z][A-Za-z0-9._-]*
isEncName(s) ==
    /\ s # <<>>
    /\ s[1] \in Range(UpperChars) \cup Range(LowerChars)
    /\ \A i \in 2..Len(s) :
          s[i] \in Range(UpperChars) \cup Range(LowerChars) \cup DigitChars \cup {".", "_", "-"}

\* XmlDeclaration::isValid(): version 1.0 and, if present, a legal encoding name.
XmlDeclaration_isValid(d) ==
    /\ d.version = <<"1", ".", "0">>
    /\ d.encoding = <<>> \/ isEncName(d.encoding)

isName(s) ==
    /\ s # <<>>
    /\ isNameStartChar(s[1])
    /\ \A i \in 2..Len(s) : isNameChar(s[i])

\* ProcessingInstruction::isValid(): the target is a Name other than "xml" in
\* any letter case.
ProcessingInstruction_isValid(p) ==
    /\ isName(p.piTarget)
    /\ toLowerString(p.piTarget) # <<"x", "m", "l">>

-----------------------------------------------------------------------------
\* Token parsers.  A token parser reads from the front of the parsing buffer;
\* its parse() yields NeedMoreData while the buffered text does not hold the
\* whole item, and otherwise Success (with the token found and the text left in
\* the buffer) or Error.

ParserNeedMoreData(buf) ==
    [result |-> "Result_NeedMoreData", tokenType |-> "TokenType_None", rest |-> buf,
     processingInstruction |-> EmptyProcessingInstruction,
     xmlDeclaration |-> EmptyXmlDeclaration]

ParserError(buf) ==
    [result |-> "Result_Error", tokenType |-> "TokenType_None", rest |-> buf,
     processingInstruction |-> EmptyProcessingInstruction,
     xmlDeclaration |-> EmptyXmlDeclaration]

ParserSuccess(type, rest) ==
    [result |-> "Result_Success", tokenType |-> type, rest |-> rest,
     processingInstruction |-> EmptyProcessingInstruction,
     xmlDeclaration |-> EmptyXmlDeclaration]

CommentStart == <<"-", "-">>

CDataStart == <<"[", "C", "D", "A", "T", "A", "[">>

\* The classification of an item that starts with "<!": t is the text after it.
ClassifyExclamationMark(buf, t) ==
    IF IsPrefix(CommentStart, t) THEN ParserSuccess("TokenType_Comment", t)
    ELSE IF IsPrefix(CDataStart, t) THEN ParserSuccess("TokenType_CData", t)
    ELSE IF IsPrefix(t, CommentStart) \/ IsPrefix(t, CDataStart) THEN ParserNeedMoreData(buf)
    ELSE ParserSuccess("TokenType_DocumentType", t)

\* TokenTypeParser::parse() on the text b that starts the item: classifies the
\* item by its prefix.
ClassifyItem(b) ==
    IF b = <<>> THEN ParserNeedMoreData(b)
    ELSE IF isWhitespace(b[1]) THEN ParserSuccess("TokenType_Whitespace", b)
    ELSE IF b[1] # "<" THEN ParserError(b)
    ELSE IF Len(b) = 1 THEN ParserNeedMoreData(b)
    ELSE IF b[2] = "?" THEN ParserSuccess("TokenType_ProcessingInstruction", Drop(b, 2))
    ELSE IF b[2] = "/" THEN ParserSuccess("TokenType_EndOfElement", Drop(b, 2))
    ELSE IF b[2] = "!" THEN ClassifyExclamationMark(b, Drop(b, 2))
    ELSE IF isNameStartChar(b[2]) THEN ParserSuccess("TokenType_StartOfElement", Drop(b, 1))
    ELSE ParserError(b)

\* TokenTypeParser::parse().  Without Option_IgnoreLeadingWhitespace, leading
\* whitespace is reported as a token of its own; with it, leading whitespace
\* is skipped.
TokenTypeParser_parse(buf, option) ==
    ClassifyItem(IF option = "Option_IgnoreLeadingWhitespace" THEN DropWhitespace(buf) ELSE buf)

\* The pseudo-attributes of an XML declaration: (S Name S? '=' S? quote value quote)* S?
\* ReadPseudoAttributes(c) yields the sequence of <<name, value>> pairs of the
\* text c; ok is FALSE on bad syntax.
RECURSIVE ReadPseudoAttributes(_)

\* The pair <<name, value>> followed by the pairs of the rest of the text.
PseudoAttributesCons(name, value, tl) ==
    [ok |-> tl.ok, attrs |-> <<<<name, value>>>> \o tl.attrs]

\* The value v (the text after the opening quote), closed at position e.
ReadPseudoAttributeValue(name, v, e) ==
    IF e = 0 THEN [ok |-> FALSE, attrs |-> <<>>]
    ELSE PseudoAttributesCons(name, SubSeq(v, 1, e - 1), ReadPseudoAttributes(Drop(v, e)))

\* The opening quote: c3 is the text after '=' and whitespace.
ReadPseudoAttributeQuote(name, c3) ==
    IF c3 = <<>> \/ c3[1] \notin {"'", "\""} THEN [ok |-> FALSE, attrs |-> <<>>]
    ELSE ReadPseudoAttributeValue(name, Drop(c3, 1), Find1(Drop(c3, 1), c3[1]))

\* The '=': c2 is the text after the name and whitespace.
ReadPseudoAttributeEqual(name, c2) ==
    IF c2 = <<>> \/ c2[1] # "=" THEN [ok |-> FALSE, attrs |-> <<>>]
    ELSE ReadPseudoAttributeQuote(name, DropWhitespace(Drop(c2, 1)))

\* The name: c1 is the text c without its leading whitespace, n the length of
\* the name that starts c1.
ReadPseudoAttributeName(c, c1, n) ==
    IF c1 = <<>> THEN [ok |-> TRUE, attrs |-> <<>>]
    ELSE IF ~isWhitespace(c[1]) \/ ~isNameStartChar(c1[1]) THEN [ok |-> FALSE, attrs |-> <<>>]
    ELSE ReadPseudoAttributeEqual(SubSeq(c1, 1, n), DropWhitespace(Drop(c1, n)))

ReadPseudoAttributes(c) ==
    ReadPseudoAttributeName(c, DropWhitespace(c), LeadingNameChars(DropWhitespace(c)))

AttVersion == <<"v","e","r","s","i","o","n">>

AttEncoding == <<"e","n","c","o","d","i","n","g">>

AttStandalone == <<"s","t","a","n","d","a","l","o","n","e">>

\* The names of the pseudo-attributes, in the order XML 1.0 fixes: version,
\* then optionally encoding, then optionally standalone.
PseudoAttributeOrders ==
    {<<AttVersion>>, <<AttVersion, AttEncoding>>, <<AttVersion, AttStandalone>>,
     <<AttVersion, AttEncoding, AttStandalone>>}

AttValue(attrs, name) ==
    IF \E i \in 1..Len(attrs) : attrs[i][1] = name
    THEN attrs[CHOOSE i \in 1..Len(attrs) : attrs[i][1] = name][2]
    ELSE <<>>

\* The XML declaration made of the pseudo-attributes read: rest is the text
\* after the closing "?>".
XmlDeclarationFromAttributes(buf, rest, read) ==
    LET attrs == read.attrs
        names == [i \in 1..Len(attrs) |-> attrs[i][1]]
        sa    == AttValue(attrs, AttStandalone)
    IN  IF ~read.ok THEN ParserError(buf)
        ELSE IF names \notin PseudoAttributeOrders THEN ParserError(buf)
        ELSE IF sa \notin {<<>>, <<"y","e","s">>, <<"n","o">>} THEN ParserError(buf)
        ELSE [ParserSuccess("TokenType_XmlDeclaration", rest) EXCEPT
                 !.xmlDeclaration =
                     [version    |-> AttValue(attrs, AttVersion),
                      encoding   |-> AttValue(attrs, AttEncoding),
                      standalone |-> IF sa = <<"y","e","s">> THEN "Yes"
                                     ELSE IF sa = <<"n","o">> THEN "No" ELSE "None"]]

\* The XML declaration mode of the processing instruction parser: content is
\* the text between the target "xml" and the closing "?>".
ParseXmlDeclaration(buf, content, rest) ==
    XmlDeclarationFromAttributes(buf, rest, ReadPseudoAttributes(content))

\* The end of the processing instruction: after is the text after the target,
\* body is after without its leading whitespace, e the position of the
\* closing "?>" in body (0: not there yet).  A target equal to "xml" when
\* lowercased makes the item an XML declaration; otherwise the data is the
\* text up to the closing "?>".
ReadPiData(buf, target, after, body, e) ==
    IF after[1] = "?" /\ Len(after) = 1 THEN ParserNeedMoreData(buf)
    ELSE IF after[1] = "?" /\ after[2] # ">" THEN ParserError(buf)
    ELSE IF e = 0 THEN ParserNeedMoreData(buf)
    ELSE IF toLowerString(target) = <<"x", "m", "l">>
         THEN ParseXmlDeclaration(buf, SubSeq(after, 1, Len(after) - Len(body) + e - 1),
                                  Drop(body, e + 1))
    ELSE [ParserSuccess("TokenType_ProcessingInstruction", Drop(body, e + 1)) EXCEPT
             !.processingInstruction =
                 [piTarget |-> target, piData |-> SubSeq(body, 1, e - 1)]]

\* The character that ends the target: whitespace or "?".
ReadPiTargetEnd(buf, target, after) ==
    IF after = <<>> THEN ParserNeedMoreData(buf)
    ELSE IF ~isWhitespace(after[1]) /\ after[1] # "?" THEN ParserError(buf)
    ELSE ReadPiData(buf, target, after, DropWhitespace(after),
                    Find2(DropWhitespace(after), "?", ">"))

\* The target, a Name of n characters.
ReadPiTarget(buf, n) ==
    IF buf = <<>> THEN ParserNeedMoreData(buf)
    ELSE IF ~isNameStartChar(buf[1]) THEN ParserError(buf)
    ELSE ReadPiTargetEnd(buf, SubSeq(buf, 1, n), Drop(buf, n))

\* ProcessingInstructionParser::parse(): the buffer starts right after "<?".
\* Reads the target, skips the whitespace after it and reads up to the
\* closing "?>".
ProcessingInstructionParser_parse(buf) == ReadPiTarget(buf, LeadingNameChars(buf))

-----------------------------------------------------------------------------
\* The reader.

VARIABLES
    m_documentState,          \* document phase
    m_parsingState,           \* state of the parse() state machine
    m_lastParsingResult,      \* what the last parse() returned
    m_parsingBuffer,          \* buffered text not yet consumed by a token parser
    m_xmlDeclaration,         \* the XML declaration last read
    m_processingInstruction,  \* the processing instruction last read
    m_tokenParser,            \* the current token parser, or NoTokenParser (NULL)
    written,                  \* history: all text written since construction or clear()
    tokens,                   \* history: the tokens parse() surfaced since then, in order
    nWrites,                  \* history: writeData() calls since then: 0, 1, 2 = several
    clears,                   \* history: clear() calls so far
    clearedIn                 \* history: m_parsingState when clear() was last called

\* The writer (XmlWriter) is a second object, used on its own.
VARIABLES
    m_state,                  \* state of the writer
    m_xmlDeclarationSet,      \* the XML declaration was written
    m_documentType,           \* name of the document type, or empty
    m_openedElementList,      \* the elements opened around the current one
    m_currentElementInfo,     \* the element last started
    m_attributeNameList,      \* attribute names added to the start tag being written
    m_xmlString,              \* the text written so far
    lastCall,                 \* history: the writer operation last called
    lastResult,               \* history: what it returned
    nCalls,                   \* history: writer operations called so far
    nStartTags,               \* history: start tags opened in this document
    nClosed                   \* history: times a start tag was closed with >

rvars ==
    <<m_documentState, m_parsingState, m_lastParsingResult, m_parsingBuffer, m_xmlDeclaration,
      m_processingInstruction, m_tokenParser, written, tokens, nWrites, clears, clearedIn>>

wvars ==
    <<m_state, m_xmlDeclarationSet, m_documentType, m_openedElementList, m_currentElementInfo,
      m_attributeNameList, m_xmlString, lastCall, lastResult, nCalls, nStartTags, nClosed>>

vars == <<rvars, wvars>>

DocumentStates ==
    {"DocumentState_PrologWaitForXmlDeclaration", "DocumentState_PrologWaitForDocumentType",
     "DocumentState_Element"}

ParsingStates ==
    {"ParsingState_Idle", "ParsingState_ReadingTokenType",
     "ParsingState_ReadingProcessingInstruction", "ParsingState_ReadingDocumentType",
     "ParsingState_ReadingComment", "ParsingState_ReadingCData",
     "ParsingState_ReadingStartOfElement", "ParsingState_ReadingEndOfElement",
     "ParsingState_ProcessingInstructionRead", "ParsingState_XmlDeclarationRead",
     "ParsingState_Error"}

ParsingResults ==
    {"ParsingResult_None", "ParsingResult_NeedMoreData", "ParsingResult_XmlDeclaration",
     "ParsingResult_ProcessingInstruction", "ParsingResult_Error"}

NoTokenParser == [kind |-> "NULL", option |-> "Option_None"]

\* new TokenTypeParser(&m_parsingBuffer, option)
NewTokenTypeParser(option) == [kind |-> "TokenTypeParser", option |-> option]

\* new ProcessingInstructionParser(&m_parsingBuffer)
NewProcessingInstructionParser == [kind |-> "ProcessingInstructionParser", option |-> "Option_None"]

\* AbstractTokenParser::isValid(): the parser has a parsing buffer to read from.
TokenParser_isValid(tokenParser) == tokenParser.kind # "NULL"

\* m_tokenParser->parse(), dispatched on the parser's dynamic type.
TokenParser_parse(tokenParser, buf) ==
    IF tokenParser.kind = "TokenTypeParser" THEN TokenTypeParser_parse(buf, tokenParser.option)
    ELSE IF tokenParser.kind = "ProcessingInstructionParser"
         THEN ProcessingInstructionParser_parse(buf)
    ELSE ParserError(buf)

\* The reader's fields as one record, the value the operations below work on.
Reader ==
    [documentState         |-> m_documentState,
     parsingState          |-> m_parsingState,
     parsingBuffer         |-> m_parsingBuffer,
     xmlDeclaration        |-> m_xmlDeclaration,
     processingInstruction |-> m_processingInstruction,
     tokenParser           |-> m_tokenParser]

\* XmlReader::startNewDocument() applied to a reader whose buffer clear() has emptied.
NewReader ==
    [documentState         |-> "DocumentState_PrologWaitForXmlDeclaration",
     parsingState          |-> "ParsingState_Idle",
     parsingBuffer         |-> <<>>,
     xmlDeclaration        |-> EmptyXmlDeclaration,
     processingInstruction |-> EmptyProcessingInstruction,
     tokenParser           |-> NoTokenParser]

\* XmlReader::startNewDocument(): resets everything but the parsing buffer, of
\* which it erases the part already consumed (the model's buffer holds the
\* unconsumed part only).
startNewDocument(r) ==
    [documentState         |-> "DocumentState_PrologWaitForXmlDeclaration",
     parsingState          |-> "ParsingState_Idle",
     parsingBuffer         |-> r.parsingBuffer,
     xmlDeclaration        |-> EmptyXmlDeclaration,
     processingInstruction |-> EmptyProcessingInstruction,
     tokenParser           |-> NoTokenParser]

\* clear() with a fault: the parsing buffer is not emptied.
clear_KeepsBuffer(r) == startNewDocument(r)

\* XmlReader::clear(): empties the parsing buffer and starts a new document.
clear(r) == startNewDocument([r EXCEPT !.parsingBuffer = <<>>])

\* XmlReader::setTokenParser(): replaces the token parser if the new one is valid.
setTokenParser(r, tokenParser) ==
    IF tokenParser # NoTokenParser /\ TokenParser_isValid(tokenParser)
    THEN [success |-> TRUE, reader |-> [r EXCEPT !.tokenParser = tokenParser]]
    ELSE [success |-> FALSE, reader |-> r]

\* "The first character does not start a XML declaration, so we should no longer
\* wait for one. Start waiting for document type instead."
StopWaitingForXmlDeclaration(documentState) ==
    IF documentState = "DocumentState_PrologWaitForXmlDeclaration"
    THEN "DocumentState_PrologWaitForDocumentType"
    ELSE documentState

\* executeParsingStateReadingTokenType(), case TokenType_ProcessingInstruction.
TokenTypeCaseProcessingInstruction(r) ==
    LET set == setTokenParser(r, NewProcessingInstructionParser)
    IN  IF set.success
        THEN [nextState |-> "ParsingState_ReadingProcessingInstruction", reader |-> set.reader]
        ELSE [nextState |-> "ParsingState_Error", reader |-> set.reader]

\* executeParsingStateReadingTokenType(), case TokenType_DocumentType.
TokenTypeCaseDocumentType(r) ==
    IF r.documentState = "DocumentState_PrologWaitForXmlDeclaration"
    THEN [nextState |-> "ParsingState_Error",
          reader    |-> [r EXCEPT !.documentState = "DocumentState_PrologWaitForDocumentType"]]
    ELSE IF r.documentState = "DocumentState_PrologWaitForDocumentType"
    THEN [nextState |-> "ParsingState_ReadingDocumentType", reader |-> r]
    ELSE [nextState |-> "ParsingState_Error", reader |-> r]

\* executeParsingStateReadingTokenType(), case TokenType_Comment.
TokenTypeCaseComment(r) ==
    [nextState |-> "ParsingState_ReadingComment",
     reader    |-> [r EXCEPT !.documentState = StopWaitingForXmlDeclaration(r.documentState)]]

\* TokenTypeCaseCData with a fault: outside element content the CDATA section
\* is not rejected, the reader goes on reading the token type.
TokenTypeCaseCData_NotRejected(r) ==
    IF r.documentState = "DocumentState_Element"
    THEN [nextState |-> "ParsingState_ReadingCData", reader |-> r]
    ELSE [nextState |-> "ParsingState_ReadingTokenType", reader |-> r]

\* executeParsingStateReadingTokenType(), case TokenType_CData.
TokenTypeCaseCData(r) ==
    IF r.documentState = "DocumentState_Element"
    THEN [nextState |-> "ParsingState_ReadingCData", reader |-> r]
    ELSE [nextState |-> "ParsingState_Error", reader |-> r]

\* executeParsingStateReadingTokenType(), case TokenType_StartOfElement.
TokenTypeCaseStartOfElement(r) ==
    [nextState |-> "ParsingState_ReadingStartOfElement", reader |-> r]

\* executeParsingStateReadingTokenType(), case TokenType_EndOfElement.
TokenTypeCaseEndOfElement(r) ==
    IF r.documentState = "DocumentState_Element"
    THEN [nextState |-> "ParsingState_ReadingEndOfElement", reader |-> r]
    ELSE [nextState |-> "ParsingState_Error", reader |-> r]

\* AbstractTokenParser::setOption(): a token type parser accepts the option
\* and starts over with it.
TokenParser_setOption(tokenParser, option) ==
    IF tokenParser.kind = "TokenTypeParser"
    THEN [success |-> TRUE, tokenParser |-> [tokenParser EXCEPT !.option = option]]
    ELSE [success |-> FALSE, tokenParser |-> tokenParser]

\* XmlReader::executeParsingStateReadingTokenType(): runs the token type parser;
\* whitespace is skipped by running the parser again with
\* Option_IgnoreLeadingWhitespace.
RECURSIVE executeParsingStateReadingTokenType(_)

\* TokenTypeCaseWhitespace with a fault: whitespace is not skipped, it ends
\* the reading of the token type with an error.
TokenTypeCaseWhitespace_Rejected(r) ==
    [nextState |-> "ParsingState_Error",
     reader    |-> [r EXCEPT !.documentState = StopWaitingForXmlDeclaration(r.documentState)]]

\* case TokenType_Whitespace
TokenTypeCaseWhitespace(r) ==
    LET ws == [r EXCEPT !.documentState = StopWaitingForXmlDeclaration(r.documentState)]
        so == TokenParser_setOption(ws.tokenParser, "Option_IgnoreLeadingWhitespace")
    IN  IF so.success
        THEN executeParsingStateReadingTokenType([ws EXCEPT !.tokenParser = so.tokenParser])
        ELSE [nextState |-> "ParsingState_Error", reader |-> ws]

\* switch (tokenType), on the reader r whose token parser found tokenType.
TokenTypeSwitch(r, tokenType) ==
    CASE tokenType = "TokenType_Whitespace" -> TokenTypeCaseWhitespace(r)
      [] tokenType = "TokenType_ProcessingInstruction" -> TokenTypeCaseProcessingInstruction(r)
      [] tokenType = "TokenType_DocumentType" -> TokenTypeCaseDocumentType(r)
      [] tokenType = "TokenType_Comment" -> TokenTypeCaseComment(r)
      [] tokenType = "TokenType_CData" -> TokenTypeCaseCData(r)
      [] tokenType = "TokenType_StartOfElement" -> TokenTypeCaseStartOfElement(r)
      [] tokenType = "TokenType_EndOfElement" -> TokenTypeCaseEndOfElement(r)
      [] OTHER -> [nextState |-> "ParsingState_Error", reader |-> r]

\* switch (result), on p, what m_tokenParser->parse() yielded.
TokenTypeResultSwitch(r, p) ==
    IF p.result = "Result_NeedMoreData"
    THEN [nextState |-> "ParsingState_ReadingTokenType",
          reader    |-> [r EXCEPT !.parsingBuffer = p.rest]]
    ELSE IF p.result = "Result_Success"
    THEN TokenTypeSwitch([r EXCEPT !.parsingBuffer = p.rest], p.tokenType)
    ELSE [nextState |-> "ParsingState_Error", reader |-> [r EXCEPT !.parsingBuffer = p.rest]]

executeParsingStateReadingTokenType(r) ==
    TokenTypeResultSwitch(r, TokenParser_parse(r.tokenParser, r.parsingBuffer))

\* PiCaseProcessingInstruction with a fault: a processing instruction read in
\* DocumentState_PrologWaitForXmlDeclaration leaves the document state as it is.
PiCaseProcessingInstruction_KeepsPhase(r, pi) ==
    IF r.tokenParser.kind = "ProcessingInstructionParser"
    THEN IF ProcessingInstruction_isValid(pi)
         THEN [nextState |-> "ParsingState_ProcessingInstructionRead",
               reader    |-> [r EXCEPT !.processingInstruction = pi]]
         ELSE [nextState |-> "ParsingState_Error",
               reader    |-> [r EXCEPT !.processingInstruction = EmptyProcessingInstruction]]
    ELSE [nextState |-> "ParsingState_Error", reader |-> r]

\* executeParsingStateReadingProcessingInstruction(), case
\* TokenType_ProcessingInstruction: pi is the parser's processing instruction.
PiCaseProcessingInstruction(r, pi) ==
    IF r.tokenParser.kind = "ProcessingInstructionParser"
    THEN IF ProcessingInstruction_isValid(pi)
         THEN [nextState |-> "ParsingState_ProcessingInstructionRead",
               reader    |-> [r EXCEPT !.processingInstruction = pi,
                                       !.documentState =
                                           StopWaitingForXmlDeclaration(r.documentState)]]
         ELSE [nextState |-> "ParsingState_Error",
               reader    |-> [r EXCEPT !.processingInstruction = EmptyProcessingInstruction]]
    ELSE [nextState |-> "ParsingState_Error", reader |-> r]

\* PiCaseXmlDeclaration with a fault: the document state is not checked, so an
\* XML declaration is taken wherever it is read.
PiCaseXmlDeclaration_AnyState(r, decl) ==
    IF r.tokenParser.kind = "ProcessingInstructionParser" /\ XmlDeclaration_isValid(decl)
    THEN [nextState |-> "ParsingState_XmlDeclarationRead",
          reader    |-> [r EXCEPT !.xmlDeclaration = decl,
                                  !.documentState =
                                      "DocumentState_PrologWaitForDocumentType"]]
    ELSE [nextState |-> "ParsingState_Error",
          reader    |-> [r EXCEPT !.xmlDeclaration = EmptyXmlDeclaration]]

\* PiCaseXmlDeclaration with a fault: the XML declaration read is stored and
\* surfaced without asking whether it is valid.
PiCaseXmlDeclaration_NoValidation(r, decl) ==
    IF r.documentState = "DocumentState_PrologWaitForXmlDeclaration"
          /\ r.tokenParser.kind = "ProcessingInstructionParser"
    THEN [nextState |-> "ParsingState_XmlDeclarationRead",
          reader    |-> [r EXCEPT !.xmlDeclaration = decl,
                                  !.documentState =
                                      "DocumentState_PrologWaitForDocumentType"]]
    ELSE [nextState |-> "ParsingState_Error", reader |-> r]

\* executeParsingStateReadingProcessingInstruction(), case
\* TokenType_XmlDeclaration: decl is the parser's XML declaration.
PiCaseXmlDeclaration(r, decl) ==
    IF r.documentState = "DocumentState_PrologWaitForXmlDeclaration"
    THEN IF r.tokenParser.kind = "ProcessingInstructionParser"
         THEN IF XmlDeclaration_isValid(decl)
              THEN [nextState |-> "ParsingState_XmlDeclarationRead",
                    reader    |-> [r EXCEPT !.xmlDeclaration = decl,
                                            !.documentState =
                                                "DocumentState_PrologWaitForDocumentType"]]
              ELSE [nextState |-> "ParsingState_Error",
                    reader    |-> [r EXCEPT !.xmlDeclaration = EmptyXmlDeclaration]]
         ELSE [nextState |-> "ParsingState_Error", reader |-> r]
    ELSE [nextState |-> "ParsingState_Error", reader |-> r]

\* PiResultSwitch with a fault: a processing instruction parser that needs
\* more data is taken as failed.
PiResultSwitch_FailsOnNeedMoreData(r, p) ==
    IF p.result = "Result_Success"
    THEN CASE p.tokenType = "TokenType_ProcessingInstruction" ->
                PiCaseProcessingInstruction([r EXCEPT !.parsingBuffer = p.rest],
                                            p.processingInstruction)
           [] p.tokenType = "TokenType_XmlDeclaration" ->
                PiCaseXmlDeclaration([r EXCEPT !.parsingBuffer = p.rest], p.xmlDeclaration)
           [] OTHER ->
                [nextState |-> "ParsingState_Error",
                 reader    |-> [r EXCEPT !.parsingBuffer = p.rest]]
    ELSE [nextState |-> "ParsingState_Error", reader |-> [r EXCEPT !.parsingBuffer = p.rest]]

\* switch (result), on p, what m_tokenParser->parse() yielded.
PiResultSwitch(r, p) ==
    IF p.result = "Result_NeedMoreData"
    THEN [nextState |-> "ParsingState_ReadingProcessingInstruction",
          reader    |-> [r EXCEPT !.parsingBuffer = p.rest]]
    ELSE IF p.result = "Result_Success"
    THEN CASE p.tokenType = "TokenType_ProcessingInstruction" ->
                PiCaseProcessingInstruction([r EXCEPT !.parsingBuffer = p.rest],
                                            p.processingInstruction)
           [] p.tokenType = "TokenType_XmlDeclaration" ->
                PiCaseXmlDeclaration([r EXCEPT !.parsingBuffer = p.rest], p.xmlDeclaration)
           [] OTHER ->
                [nextState |-> "ParsingState_Error",
                 reader    |-> [r EXCEPT !.parsingBuffer = p.rest]]
    ELSE [nextState |-> "ParsingState_Error", reader |-> [r EXCEPT !.parsingBuffer = p.rest]]

\* XmlReader::executeParsingStateReadingProcessingInstruction(): runs the
\* processing instruction parser once.
executeParsingStateReadingProcessingInstruction(r) ==
    PiResultSwitch(r, TokenParser_parse(r.tokenParser, r.parsingBuffer))

-----------------------------------------------------------------------------
\* XmlReader::parse().  One cycle of its loop takes the reader and the result
\* so far and yields the reader with m_parsingState updated, the result, and
\* whether the loop finishes.

\* case ParsingState_Idle
ParseCaseIdle(r, result) ==
    LET set == setTokenParser(r, NewTokenTypeParser("Option_None"))
    IN  IF set.success
        THEN [reader |-> [set.reader EXCEPT
                             !.documentState = "DocumentState_PrologWaitForXmlDeclaration",
                             !.parsingState = "ParsingState_ReadingTokenType"],
              result |-> result, finishParsing |-> FALSE]
        ELSE [reader |-> [set.reader EXCEPT !.parsingState = "ParsingState_Error"],
              result |-> result, finishParsing |-> TRUE]

\* The Reading* states a token type leads to.
ReadingStates ==
    {"ParsingState_ReadingProcessingInstruction", "ParsingState_ReadingDocumentType",
     "ParsingState_ReadingComment", "ParsingState_ReadingCData",
     "ParsingState_ReadingStartOfElement", "ParsingState_ReadingEndOfElement"}

\* CheckTransitionsReadingTokenType with a fault: when more data is needed the
\* reader goes back to ParsingState_Idle, so the next parse() starts a new
\* document.
CheckTransitionsReadingTokenType_Restart(e, result) ==
    IF e.nextState = "ParsingState_ReadingTokenType"
    THEN [reader |-> [e.reader EXCEPT !.parsingState = "ParsingState_Idle"],
          result |-> "ParsingResult_NeedMoreData", finishParsing |-> TRUE]
    ELSE IF e.nextState \in ReadingStates
    THEN [reader |-> [e.reader EXCEPT !.parsingState = e.nextState],
          result |-> result, finishParsing |-> FALSE]
    ELSE [reader |-> [e.reader EXCEPT !.parsingState = "ParsingState_Error"],
          result |-> result, finishParsing |-> TRUE]

\* case ParsingState_ReadingTokenType, "Check transitions": e is what
\* executeParsingStateReadingTokenType() yielded.
CheckTransitionsReadingTokenType(e, result) ==
    IF e.nextState = "ParsingState_ReadingTokenType"
    THEN [reader |-> [e.reader EXCEPT !.parsingState = e.nextState],
          result |-> "ParsingResult_NeedMoreData", finishParsing |-> TRUE]
    ELSE IF e.nextState \in ReadingStates
    THEN [reader |-> [e.reader EXCEPT !.parsingState = e.nextState],
          result |-> result, finishParsing |-> FALSE]
    ELSE [reader |-> [e.reader EXCEPT !.parsingState = "ParsingState_Error"],
          result |-> result, finishParsing |-> TRUE]

\* case ParsingState_ReadingTokenType
ParseCaseReadingTokenType(r, result) ==
    CheckTransitionsReadingTokenType(executeParsingStateReadingTokenType(r), result)

\* CheckTransitionsReadingProcessingInstruction with a fault: the transition to
\* ParsingState_XmlDeclarationRead has no case and falls to the default.
CheckTransitionsReadingProcessingInstruction_NoXmlDeclaration(e, result) ==
    IF e.nextState = "ParsingState_ReadingProcessingInstruction"
    THEN [reader |-> [e.reader EXCEPT !.parsingState = e.nextState],
          result |-> "ParsingResult_NeedMoreData", finishParsing |-> TRUE]
    ELSE IF e.nextState = "ParsingState_ProcessingInstructionRead"
    THEN [reader |-> [e.reader EXCEPT !.parsingState = e.nextState],
          result |-> "ParsingResult_ProcessingInstruction", finishParsing |-> TRUE]
    ELSE [reader |-> [e.reader EXCEPT !.parsingState = "ParsingState_Error"],
          result |-> result, finishParsing |-> TRUE]

\* case ParsingState_ReadingProcessingInstruction, "Check transitions": e is
\* what executeParsingStateReadingProcessingInstruction() yielded.
CheckTransitionsReadingProcessingInstruction(e, result) ==
    IF e.nextState = "ParsingState_ReadingProcessingInstruction"
    THEN [reader |-> [e.reader EXCEPT !.parsingState = e.nextState],
          result |-> "ParsingResult_NeedMoreData", finishParsing |-> TRUE]
    ELSE IF e.nextState = "ParsingState_ProcessingInstructionRead"
    THEN [reader |-> [e.reader EXCEPT !.parsingState = e.nextState],
          result |-> "ParsingResult_ProcessingInstruction", finishParsing |-> TRUE]
    ELSE IF e.nextState = "ParsingState_XmlDeclarationRead"
    THEN [reader |-> [e.reader EXCEPT !.parsingState = e.nextState],
          result |-> "ParsingResult_XmlDeclaration", finishParsing |-> TRUE]
    ELSE [reader |-> [e.reader EXCEPT !.parsingState = "ParsingState_Error"],
          result |-> result, finishParsing |-> TRUE]

\* case ParsingState_ReadingProcessingInstruction
ParseCaseReadingProcessingInstruction(r, result) ==
    CheckTransitionsReadingProcessingInstruction(
        executeParsingStateReadingProcessingInstruction(r), result)

\* ParseCaseTokenRead with a fault: the new token parser is set and another
\* cycle is asked for, but the parsing state is left as it is.
ParseCaseTokenRead_NoTransition(r, result) ==
    [reader |-> [r EXCEPT !.tokenParser =
                              NewTokenTypeParser("Option_IgnoreLeadingWhitespace")],
     result |-> result, finishParsing |-> FALSE]

\* case ParsingState_ProcessingInstructionRead, case ParsingState_XmlDeclarationRead
ParseCaseTokenRead(r, result) ==
    LET set == setTokenParser(r, NewTokenTypeParser("Option_IgnoreLeadingWhitespace"))
    IN  IF set.success
        THEN [reader |-> [set.reader EXCEPT !.parsingState = "ParsingState_ReadingTokenType"],
              result |-> result, finishParsing |-> FALSE]
        ELSE [reader |-> [set.reader EXCEPT !.parsingState = "ParsingState_Error"],
              result |-> result, finishParsing |-> TRUE]

\* ParseCaseDefault with a fault: a reader in ParsingState_Error (or in a state
\* without a case) starts reading the next token instead of staying in error.
ParseCaseDefault_Restart(r, result) ==
    [reader |-> [r EXCEPT !.parsingState = "ParsingState_ReadingTokenType",
                          !.tokenParser =
                              NewTokenTypeParser("Option_IgnoreLeadingWhitespace")],
     result |-> result, finishParsing |-> FALSE]

\* default: every other parsing state, among them ParsingState_Error and the
\* Reading* states that have no case of their own.
ParseCaseDefault(r, result) ==
    [reader |-> [r EXCEPT !.parsingState = "ParsingState_Error"],
     result |-> result, finishParsing |-> TRUE]

\* The switch on m_parsingState.
ParseCycle(r, result) ==
    CASE r.parsingState = "ParsingState_Idle" -> ParseCaseIdle(r, result)
      [] r.parsingState = "ParsingState_ReadingTokenType" -> ParseCaseReadingTokenType(r, result)
      [] r.parsingState = "ParsingState_ReadingProcessingInstruction" ->
             ParseCaseReadingProcessingInstruction(r, result)
      [] r.parsingState \in
             {"ParsingState_ProcessingInstructionRead", "ParsingState_XmlDeclarationRead"} ->
             ParseCaseTokenRead(r, result)
      [] OTHER -> ParseCaseDefault(r, result)

\* while (!finishParsing)
RECURSIVE ParseLoop(_, _)

\* The loop's test after the cycle that yielded c.
ParseLoopTest(c) ==
    IF c.finishParsing
    THEN [reader |-> c.reader, result |-> c.result]
    ELSE ParseLoop(c.reader, c.result)

ParseLoop(r, result) == ParseLoopTest(ParseCycle(r, result))

\* parse() with a fault: result starts as ParsingResult_None.
parse_ResultNone(r) == ParseLoop(r, "ParsingResult_None")

\* XmlReader::parse(): the reader after the call and the result returned.
parse(r) == ParseLoop(r, "ParsingResult_Error")

\* The results with which parse() hands a token to the caller.
TokenResults == {"ParsingResult_XmlDeclaration", "ParsingResult_ProcessingInstruction"}

\* What the caller reads after parse() returned result: the result and the
\* value of the getter that goes with it (xmlDeclaration(), processingInstruction()).
SurfacedToken(r, result) ==
    [result                |-> result,
     xmlDeclaration        |-> IF result = "ParsingResult_XmlDeclaration"
                               THEN r.xmlDeclaration ELSE EmptyXmlDeclaration,
     processingInstruction |-> IF result = "ParsingResult_ProcessingInstruction"
                               THEN r.processingInstruction ELSE EmptyProcessingInstruction]

\* The caller's loop of the demo: parse() again and again until it returns
\* something other than a token.  Yields the tokens surfaced, the final result
\* and the reader left behind.
RECURSIVE Drain(_)

\* The token just surfaced, followed by what the rest of the loop yields.
DrainCons(token, d) ==
    [tokens |-> <<token>> \o d.tokens, final |-> d.final, reader |-> d.reader]

\* The demo's switch on the result of parse(), p.
DrainSwitch(p) ==
    IF p.result \in TokenResults
    THEN DrainCons(SurfacedToken(p.reader, p.result), Drain(p.reader))
    ELSE [tokens |-> <<>>, final |-> p.result, reader |-> p.reader]

Drain(r) == DrainSwitch(parse(r))

-----------------------------------------------------------------------------
\* The state machine: a client that owns one reader.

SetReader(r) ==
    /\ m_documentState' = r.documentState
    /\ m_parsingState' = r.parsingState
    /\ m_parsingBuffer' = r.parsingBuffer
    /\ m_xmlDeclaration' = r.xmlDeclaration
    /\ m_processingInstruction' = r.processingInstruction
    /\ m_tokenParser' = r.tokenParser

-----------------------------------------------------------------------------
\* The writer (XmlWriter).  The validators (XmlValidator), the escaping of a
\* special character (Common) and the element record (ElementInfo) are not part
\* of the available sources; they are modelled by the XML 1.0 productions their
\* names refer to.

\* How many writer operations the client may call in one behaviour.
MaxWriterOps == 4

WriterStates ==
    {"State_Empty", "State_DocumentStarted", "State_ElementStarted", "State_InElement",
     "State_DocumentEnded"}

QuotationMarks == {"QuotationMark_None", "QuotationMark_Quote", "QuotationMark_Apostrophe"}

\* Every & of s starts a reference: & name ; or &# digits ;
ReferencesOnly(s) ==
    \A k \in 1..Len(s) :
        s[k] = "&" =>
            \E j \in (k + 2)..Len(s) :
                /\ s[j] = ";"
                /\ \A i \in (k + 1)..(j - 1) : isNameChar(s[i]) \/ (i = k + 1 /\ s[i] = "#")

\* XmlValidator::validateNameString(): a Name.
validateNameString(name) == isName(name)

\* XmlValidator::validateCommentString(): no "--" and no "-" at the end.
validateCommentString(commentText) ==
    /\ Find2(commentText, "-", "-") = 0
    /\ commentText = <<>> \/ commentText[Len(commentText)] # "-"

\* XmlValidator::validatePiTargetString(): a Name other than "xml" in any
\* letter case.
validatePiTargetString(piTarget) ==
    isName(piTarget) /\ toLowerString(piTarget) # <<"x", "m", "l">>

\* XmlValidator::validatePiValueString(): no "?>".
validatePiValueString(piValue) == Find2(piValue, "?", ">") = 0

\* XmlValidator::validateTextNodeString(): character data, no < and no & other
\* than in a reference.
validateTextNodeString(textNode) == Find1(textNode, "<") = 0 /\ ReferencesOnly(textNode)

\* XmlValidator::validateAttValueString(): no < and no & other than in a
\* reference.
validateAttValueString(attValue) == Find1(attValue, "<") = 0 /\ ReferencesOnly(attValue)

\* Common::escapeSpecialCharacter()
escapeSpecialCharacter(c) ==
    CASE c = "<" -> <<"&", "l", "t", ";">>
      [] c = "&" -> <<"&", "a", "m", "p", ";">>
      [] c = "\"" -> <<"&", "q", "u", "o", "t", ";">>
      [] c = "'" -> <<"&", "a", "p", "o", "s", ";">>
      [] OTHER -> <<>>

\* The escaping loop has handled the character at currentPosition and goes on
\* with the next one, if any.
RECURSIVE EscapeLoop(_, _, _, _, _)
EscapeNext(v, quotationMark, currentPosition, escapedString, characterEscaped) ==
    IF currentPosition < Len(v)
    THEN EscapeLoop(v, quotationMark, currentPosition + 1, escapedString, characterEscaped)
    ELSE [success |-> TRUE, escapedString |-> escapedString,
          characterEscaped |-> characterEscaped]

\* XmlWriter::escapeAttValue(), the loop over the characters of the value,
\* from the character at currentPosition on.
EscapeLoop(v, quotationMark, currentPosition, escapedString, characterEscaped) ==
    IF v[currentPosition] \in {"<", "&", "\"", "'"}
    THEN IF \/ v[currentPosition] = "\"" /\ quotationMark = "QuotationMark_Apostrophe"
            \/ v[currentPosition] = "'" /\ quotationMark = "QuotationMark_Quote"
         THEN [success |-> FALSE, escapedString |-> escapedString,
               characterEscaped |-> characterEscaped]
         ELSE EscapeNext(v, quotationMark, currentPosition,
                         (IF characterEscaped
                          THEN escapedString
                          ELSE SubSeq(v, 1, currentPosition - 1))
                             \o escapeSpecialCharacter(v[currentPosition]),
                         TRUE)
    ELSE EscapeNext(v, quotationMark, currentPosition,
                    IF characterEscaped
                    THEN Append(escapedString, v[currentPosition])
                    ELSE escapedString,
                    characterEscaped)

\* XmlWriter::escapeAttValue(), what is returned after the loop.
EscapeReturn(unescapedAttValue, r) ==
    IF r.success
    THEN IF r.characterEscaped THEN r.escapedString ELSE unescapedAttValue
    ELSE <<>>

\* XmlWriter::escapeAttValue()
escapeAttValue(unescapedAttValue, quotationMark) ==
    IF unescapedAttValue = <<>>
    THEN <<>>
    ELSE EscapeReturn(unescapedAttValue,
                      EscapeLoop(unescapedAttValue, quotationMark, 1, <<>>, FALSE))

\* ElementInfo(name)
ElementInfo(name) == [name |-> name, contentEmpty |-> TRUE]

\* The writer object.
Writer ==
    [state             |-> m_state,
     xmlDeclarationSet |-> m_xmlDeclarationSet,
     documentType      |-> m_documentType,
     openedElementList |-> m_openedElementList,
     currentElementInfo |-> m_currentElementInfo,
     attributeNameList |-> m_attributeNameList,
     xmlString         |-> m_xmlString]

\* What a writer operation leaves: the writer, what it returns, and whether it
\* closed the start tag that was open.
Returned(w, success, closeStartTag) ==
    [writer |-> w, success |-> success, closeStartTag |-> closeStartTag]

\* XmlWriter::clearDocument().  The statement for the document type has no
\* effect: the document type is kept.
clearDocument(w) ==
    [state             |-> "State_Empty",
     xmlDeclarationSet |-> FALSE,
     documentType      |-> w.documentType,
     openedElementList |-> <<>>,
     currentElementInfo |-> ElementInfo(<<>>),
     attributeNameList |-> <<>>,
     xmlString         |-> <<>>]

\* XmlWriter::XmlWriter(): clearDocument() on the members as default
\* constructed.
NewWriter ==
    clearDocument([state             |-> "State_Empty",
                   xmlDeclarationSet |-> FALSE,
                   documentType      |-> <<>>,
                   openedElementList |-> <<>>,
                   currentElementInfo |-> ElementInfo(<<>>),
                   attributeNameList |-> <<>>,
                   xmlString         |-> <<>>])

\* getXmlString() with a fault: the text is returned in every state.
getXmlString_Always(w) == w.xmlString

\* XmlWriter::getXmlString()
getXmlString(w) == IF w.state = "State_DocumentEnded" THEN w.xmlString ELSE <<>>

\* <?xml version="1.0" encoding="UTF-8"?>
XmlDeclarationText ==
    <<"<","?","x","m","l"," ","v","e","r","s","i","o","n","=","\"","1",".","0","\""," ",
      "e","n","c","o","d","i","n","g","=","\"","U","T","F","-","8","\"","?",">">>

\* setXmlDeclaration() with a fault: it succeeds in every state.
setXmlDeclaration_AnyState(w) ==
    Returned([w EXCEPT !.xmlString = XmlDeclarationText,
                       !.xmlDeclarationSet = TRUE,
                       !.state = "State_DocumentStarted"],
             TRUE, FALSE)

\* XmlWriter::setXmlDeclaration()
setXmlDeclaration(w) ==
    IF w.state = "State_Empty"
    THEN Returned([w EXCEPT !.xmlString = XmlDeclarationText,
                            !.xmlDeclarationSet = TRUE,
                            !.state = "State_DocumentStarted"],
                  TRUE, FALSE)
    ELSE Returned(w, FALSE, FALSE)

\* <!DOCTYPE and a space
DocTypeOpen == <<"<","!","D","O","C","T","Y","P","E"," ">>

\* setDocumentType() with a fault: it succeeds in every state.
setDocumentType_AnyState(w, documentType) ==
    IF w.documentType = <<>> /\ validateNameString(documentType)
    THEN Returned([w EXCEPT !.xmlString = @ \o DocTypeOpen \o documentType \o <<">">>,
                            !.documentType = documentType,
                            !.state = "State_DocumentStarted"],
                  TRUE, FALSE)
    ELSE Returned(w, FALSE, FALSE)

\* XmlWriter::setDocumentType()
setDocumentType(w, documentType) ==
    IF /\ w.documentType = <<>>
       /\ w.state \in {"State_Empty", "State_DocumentStarted"}
       /\ validateNameString(documentType)
    THEN Returned([w EXCEPT !.xmlString = @ \o DocTypeOpen \o documentType \o <<">">>,
                            !.documentType = documentType,
                            !.state = "State_DocumentStarted"],
                  TRUE, FALSE)
    ELSE Returned(w, FALSE, FALSE)

\* The start tag is closed: ">" is written, the element has content and the
\* attribute names are forgotten.
CloseStartTag(w) ==
    [w EXCEPT !.xmlString = Append(@, ">"),
              !.currentElementInfo.contentEmpty = FALSE,
              !.attributeNameList = <<>>]

\* The start tag is closed if the operation found the state ElementStarted.
CloseStartTagIf(w, closeStartTag) == IF closeStartTag THEN CloseStartTag(w) ELSE w

\* The state switch of addComment() and addProcessingInstruction(): the next
\* state.
NextStateAfterMisc(state) ==
    CASE state = "State_Empty" -> "State_DocumentStarted"
      [] state = "State_ElementStarted" -> "State_InElement"
      [] OTHER -> state

\* addComment(), the text is valid: w is the writer with the start tag closed
\* if it was open.
AddCommentWrite(w, commentText, nextState, closeStartTag) ==
    Returned([w EXCEPT !.xmlString = @ \o <<"<","!","-","-">> \o commentText
                                       \o <<"-","-",">">>,
                       !.state = nextState],
             TRUE, closeStartTag)

\* XmlWriter::addComment()
addComment(w, commentText) ==
    IF validateCommentString(commentText) /\ w.state \in WriterStates
    THEN AddCommentWrite(CloseStartTagIf(w, w.state = "State_ElementStarted"), commentText,
                         NextStateAfterMisc(w.state), w.state = "State_ElementStarted")
    ELSE Returned(w, FALSE, FALSE)

\* addProcessingInstruction(), the target and the value are valid.  The state
\* becomes State_ElementStarted whatever the next state of the switch is.
AddProcessingInstructionWrite(w, piTarget, piValue, nextState, closeStartTag) ==
    Returned([w EXCEPT !.xmlString = @ \o <<"<","?">> \o piTarget
                                       \o (IF piValue # <<>> THEN <<" ">> \o piValue ELSE <<>>)
                                       \o <<"?",">">>,
                       !.state = "State_ElementStarted"],
             TRUE, closeStartTag)

\* XmlWriter::addProcessingInstruction()
addProcessingInstruction(w, piTarget, piValue) ==
    IF /\ validatePiTargetString(piTarget)
       /\ validatePiValueString(piValue)
       /\ w.state \in WriterStates
    THEN AddProcessingInstructionWrite(CloseStartTagIf(w, w.state = "State_ElementStarted"),
                                       piTarget, piValue, NextStateAfterMisc(w.state),
                                       w.state = "State_ElementStarted")
    ELSE Returned(w, FALSE, FALSE)

\* startElement(), the state switch: the element may be started.
StartElementAllowed(w, elementName) ==
    CASE w.state = "State_DocumentStarted" ->
             w.documentType = <<>> \/ elementName = w.documentType
      [] w.state \in {"State_Empty", "State_InElement", "State_ElementStarted"} -> TRUE
      [] OTHER -> FALSE

\* startElement(), the name is valid and the element may be started: w is the
\* writer with the start tag closed if it was open.
StartElementWrite(w, elementName, closeStartTag) ==
    Returned([w EXCEPT !.openedElementList =
                           IF w.currentElementInfo.name # <<>>
                           THEN Append(@, w.currentElementInfo)
                           ELSE @,
                       !.xmlString = @ \o <<"<">> \o elementName,
                       !.currentElementInfo = ElementInfo(elementName),
                       !.state = "State_ElementStarted"],
             TRUE, closeStartTag)

\* XmlWriter::startElement()
startElement(w, elementName) ==
    IF validateNameString(elementName) /\ StartElementAllowed(w, elementName)
    THEN StartElementWrite(CloseStartTagIf(w, w.state = "State_ElementStarted"), elementName,
                           w.state = "State_ElementStarted")
    ELSE Returned(w, FALSE, FALSE)

\* addAttribute(): an attribute with this name is in the list already.
AttributeNameFound(w, name) == \E i \in 1..Len(w.attributeNameList) : w.attributeNameList[i] = name

\* addAttribute(): the character for the quotation mark, or none.
QuotationMarkCharacter(quotationMark) ==
    CASE quotationMark = "QuotationMark_Quote" -> <<"\"">>
      [] quotationMark = "QuotationMark_Apostrophe" -> <<"'">>
      [] OTHER -> <<>>

\* addAttribute(), the state is ElementStarted, the name is valid and new:
\* escapedAttrValue is the value escaped.
AddAttributeWrite(w, attribute, quotationMark, escapedAttrValue) ==
    IF /\ (escapedAttrValue = <<>>) = (attribute.value = <<>>)
       /\ validateAttValueString(escapedAttrValue)
       /\ QuotationMarkCharacter(quotationMark) # <<>>
    THEN Returned([w EXCEPT !.attributeNameList = Append(@, attribute.name),
                            !.xmlString = @ \o <<" ">> \o attribute.name \o <<"=">>
                                            \o QuotationMarkCharacter(quotationMark)
                                            \o escapedAttrValue
                                            \o QuotationMarkCharacter(quotationMark)],
                  TRUE, FALSE)
    ELSE Returned(w, FALSE, FALSE)

\* addAttribute() with a fault: the name is not looked up in the list.
addAttribute_NoNameCheck(w, attribute, quotationMark) ==
    IF w.state = "State_ElementStarted" /\ validateNameString(attribute.name)
    THEN AddAttributeWrite(w, attribute, quotationMark,
                           escapeAttValue(attribute.value, quotationMark))
    ELSE Returned(w, FALSE, FALSE)

\* XmlWriter::addAttribute()
addAttribute(w, attribute, quotationMark) ==
    IF /\ w.state = "State_ElementStarted"
       /\ validateNameString(attribute.name)
       /\ ~AttributeNameFound(w, attribute.name)
    THEN AddAttributeWrite(w, attribute, quotationMark,
                           escapeAttValue(attribute.value, quotationMark))
    ELSE Returned(w, FALSE, FALSE)

\* addTextNode(), the text is valid and the state allows it.  The state
\* becomes State_ElementStarted.
AddTextNodeWrite(w, textNode, closeStartTag) ==
    Returned([w EXCEPT !.xmlString = @ \o textNode,
                       !.state = "State_ElementStarted"],
             TRUE, closeStartTag)

\* addTextNode() with a fault: the start tag is closed before the text is
\* validated, and stays closed when the text is rejected.
addTextNode_ClosesFirst(w, textNode) ==
    IF w.state \in {"State_InElement", "State_ElementStarted"}
    THEN IF validateTextNodeString(textNode)
         THEN AddTextNodeWrite(CloseStartTagIf(w, w.state = "State_ElementStarted"), textNode,
                               w.state = "State_ElementStarted")
         ELSE Returned(CloseStartTagIf(w, w.state = "State_ElementStarted"), FALSE, FALSE)
    ELSE Returned(w, FALSE, FALSE)

\* XmlWriter::addTextNode()
addTextNode(w, textNode) ==
    IF /\ validateTextNodeString(textNode)
       /\ w.state \in {"State_InElement", "State_ElementStarted"}
    THEN AddTextNodeWrite(CloseStartTagIf(w, w.state = "State_ElementStarted"), textNode,
                          w.state = "State_ElementStarted")
    ELSE Returned(w, FALSE, FALSE)

\* XmlWriter::endElement(): the body is empty and no value is returned; the
\* caller gets whatever the build leaves as the return value.
endElement(w, returnValue) == Returned(w, returnValue, FALSE)

\* Values the client passes to the writer.
WriterNames == {<<"r">>, <<"a">>, <<"1">>}

WriterComments == {<<"c">>, <<"-", "-">>}

WriterPiTargets == {<<"p">>, <<"x", "m", "l">>}

WriterPiValues == {<<>>, <<"v">>}

WriterAttributes ==
    {[name |-> n, value |-> v] : n \in {<<"k">>, <<"l">>}, v \in {<<>>, <<"v">>, <<"'">>}}

WriterTextNodes == {<<"t">>, <<"<">>}

\* The writer as constructed, nothing called yet.
WriterConstructed ==
    /\ m_state = NewWriter.state
    /\ m_xmlDeclarationSet = NewWriter.xmlDeclarationSet
    /\ m_documentType = NewWriter.documentType
    /\ m_openedElementList = NewWriter.openedElementList
    /\ m_currentElementInfo = NewWriter.currentElementInfo
    /\ m_attributeNameList = NewWriter.attributeNameList
    /\ m_xmlString = NewWriter.xmlString
    /\ lastCall = "XmlWriter"
    /\ lastResult = TRUE
    /\ nCalls = 0
    /\ nStartTags = 0
    /\ nClosed = 0

\* XmlReader::XmlReader(), and the writer as constructed.
Init ==
    /\ m_documentState = NewReader.documentState
    /\ m_parsingState = NewReader.parsingState
    /\ m_parsingBuffer = NewReader.parsingBuffer
    /\ m_xmlDeclaration = NewReader.xmlDeclaration
    /\ m_processingInstruction = NewReader.processingInstruction
    /\ m_tokenParser = NewReader.tokenParser
    /\ m_lastParsingResult = "ParsingResult_None"
    /\ written = <<>>
    /\ tokens = <<>>
    /\ nWrites = 0
    /\ clears = 0
    /\ clearedIn = "Never"
    /\ WriterConstructed

\* WriteData with a fault: writing also empties the stored tokens.
WriteData_ClearsTokens ==
    \E d \in Docs : \E n \in 1..Len(d) :
        /\ n > Len(written)
        /\ IsPrefix(written, d)
        /\ m_parsingBuffer' = m_parsingBuffer \o SubSeq(d, Len(written) + 1, n)
        /\ m_xmlDeclaration' = EmptyXmlDeclaration
        /\ m_processingInstruction' = EmptyProcessingInstruction
        /\ written' = SubSeq(d, 1, n)
        /\ nWrites' = IF nWrites < 2 THEN nWrites + 1 ELSE nWrites
        /\ UNCHANGED <<m_documentState, m_parsingState, m_lastParsingResult, m_tokenParser,
                       tokens, clears, clearedIn>>
        /\ UNCHANGED wvars

\* XmlReader::writeData(data): data is the next chunk, of any length, of one of
\* the input documents.
WriteData ==
    \E d \in Docs : \E n \in 1..Len(d) :
        /\ n > Len(written)
        /\ IsPrefix(written, d)
        /\ m_parsingBuffer' = m_parsingBuffer \o SubSeq(d, Len(written) + 1, n)
        /\ written' = SubSeq(d, 1, n)
        /\ nWrites' = IF nWrites < 2 THEN nWrites + 1 ELSE nWrites
        /\ UNCHANGED <<m_documentState, m_parsingState, m_lastParsingResult, m_xmlDeclaration,
                       m_processingInstruction, m_tokenParser, tokens, clears, clearedIn>>
        /\ UNCHANGED wvars

\* XmlReader::parse()
Parse ==
    LET p == parse(Reader)
    IN  /\ SetReader(p.reader)
        /\ m_lastParsingResult' = p.result
        /\ tokens' = IF p.result \in TokenResults
                     THEN Append(tokens, SurfacedToken(p.reader, p.result))
                     ELSE tokens
        /\ UNCHANGED <<written, nWrites, clears, clearedIn>>
        /\ UNCHANGED wvars

\* XmlReader::clear()
Clear ==
    /\ clears < MaxClears
    /\ SetReader(clear(Reader))
    /\ m_lastParsingResult' = "ParsingResult_None"
    /\ written' = <<>>
    /\ tokens' = <<>>
    /\ nWrites' = 0
    /\ clears' = clears + 1
    /\ clearedIn' = m_parsingState
    /\ UNCHANGED wvars

Next == WriteData \/ Parse \/ Clear

Spec == Init /\ [][Next]_vars

TypeOK ==
    /\ m_documentState \in DocumentStates
    /\ m_parsingState \in ParsingStates
    /\ m_lastParsingResult \in ParsingResults
    /\ m_tokenParser.kind \in {"NULL", "TokenTypeParser", "ProcessingInstructionParser"}
    /\ \E d \in Docs : IsPrefix(written, d)
    /\ clearedIn \in ParsingStates \cup {"Never"}

-----------------------------------------------------------------------------
\* The writer, driven by a client that calls its operations in any order.

SetWriter(w) ==
    /\ m_state' = w.state
    /\ m_xmlDeclarationSet' = w.xmlDeclarationSet
    /\ m_documentType' = w.documentType
    /\ m_openedElementList' = w.openedElementList
    /\ m_currentElementInfo' = w.currentElementInfo
    /\ m_attributeNameList' = w.attributeNameList
    /\ m_xmlString' = w.xmlString

\* The client has called the operation named call, which leaves r.
Called(call, r) ==
    /\ SetWriter(r.writer)
    /\ lastCall' = call
    /\ lastResult' = r.success
    /\ nCalls' = nCalls + 1
    /\ nStartTags' = IF call = "startElement" /\ r.success THEN nStartTags + 1 ELSE nStartTags
    /\ nClosed' = IF r.closeStartTag THEN nClosed + 1 ELSE nClosed
    /\ UNCHANGED rvars

\* XmlWriter::clearDocument()
ClearDocument ==
    /\ nCalls < MaxWriterOps
    /\ SetWriter(clearDocument(Writer))
    /\ lastCall' = "clearDocument"
    /\ lastResult' = TRUE
    /\ nCalls' = nCalls + 1
    /\ nStartTags' = 0
    /\ nClosed' = 0
    /\ UNCHANGED rvars

\* XmlWriter::setXmlDeclaration()
SetXmlDeclaration ==
    /\ nCalls < MaxWriterOps
    /\ Called("setXmlDeclaration", setXmlDeclaration(Writer))

\* XmlWriter::setDocumentType()
SetDocumentType ==
    /\ nCalls < MaxWriterOps
    /\ \E documentType \in WriterNames :
           Called("setDocumentType", setDocumentType(Writer, documentType))

\* XmlWriter::addComment()
AddComment ==
    /\ nCalls < MaxWriterOps
    /\ \E commentText \in WriterComments :
           Called("addComment", addComment(Writer, commentText))

\* XmlWriter::addProcessingInstruction()
AddProcessingInstruction ==
    /\ nCalls < MaxWriterOps
    /\ \E piTarget \in WriterPiTargets : \E piValue \in WriterPiValues :
           Called("addProcessingInstruction", addProcessingInstruction(Writer, piTarget, piValue))

\* XmlWriter::startElement()
StartElement ==
    /\ nCalls < MaxWriterOps
    /\ \E elementName \in WriterNames :
           Called("startElement", startElement(Writer, elementName))

\* XmlWriter::addAttribute()
AddAttribute ==
    /\ nCalls < MaxWriterOps
    /\ \E attribute \in WriterAttributes : \E quotationMark \in QuotationMarks :
           Called("addAttribute", addAttribute(Writer, attribute, quotationMark))

\* XmlWriter::addTextNode()
AddTextNode ==
    /\ nCalls < MaxWriterOps
    /\ \E textNode \in WriterTextNodes :
           Called("addTextNode", addTextNode(Writer, textNode))

\* XmlWriter::endElement()
EndElement ==
    /\ nCalls < MaxWriterOps
    /\ \E returnValue \in BOOLEAN :
           Called("endElement", endElement(Writer, returnValue))

WriterNext ==
    \/ ClearDocument
    \/ SetXmlDeclaration
    \/ SetDocumentType
    \/ AddComment
    \/ AddProcessingInstruction
    \/ StartElement
    \/ AddAttribute
    \/ AddTextNode
    \/ EndElement

\* The writer used on its own: the reader is left as constructed.
WriterSpec == Init /\ [][WriterNext]_vars

WriterTypeOK ==
    /\ m_state \in WriterStates
    /\ m_xmlDeclarationSet \in BOOLEAN
    /\ lastResult \in BOOLEAN
    /\ nCalls \in 0..MaxWriterOps

-----------------------------------------------------------------------------
\* Properties.

\* The results of a sequence of surfaced tokens.
ResultsOf(toks) == [i \in 1..Len(toks) |-> toks[i].result]

\* What a new reader yields when w is written in one writeData() call and
\* parse() is called until it returns no token.
Bulk(w) == Drain([NewReader EXCEPT !.parsingBuffer = w])

\* C1: once parse() has returned Error, every later parse() returns Error
\* again, whatever is written in between, until clear() is called.
ErrorLatch ==
    [][(m_lastParsingResult = "ParsingResult_Error" /\ clears' = clears)
          => /\ m_lastParsingResult' = "ParsingResult_Error"
             /\ m_parsingState' = "ParsingState_Error"]_vars

\* C1 witness: the reader is latched in error although a well-formed
\* processing instruction, written after the rejected XML declaration, is
\* waiting in the buffer.
ErrorLatchWitness ==
    /\ written = Doc_BadVersion
    /\ nWrites = 2
    /\ m_lastParsingResult = "ParsingResult_Error"
    /\ m_parsingState = "ParsingState_Error"
    /\ m_parsingBuffer = Drop(Doc_BadVersion, Len(Doc_BadVersion) - 5)

\* C2: in every state, whatever the chunks written and the parse() calls made
\* so far, the tokens surfaced so far followed by those the caller gets by
\* calling parse() until it returns NeedMoreData or Error, and that final
\* result, are the ones of writing the same text in one writeData() call.
SameOutcome(d, b) ==
    /\ tokens \o d.tokens = b.tokens
    /\ d.final = b.final

ChunkingInvariance == SameOutcome(Drain(Reader), Bulk(written))

\* C2 witness: the demo document was written in several chunks, parse() was
\* suspended inside the processing instruction after the XML declaration had
\* been surfaced, and both tokens have been surfaced in the end.
ChunkingInvarianceWitness ==
    /\ written = Doc_Demo
    /\ nWrites = 2
    /\ Len(tokens) = 2
    /\ m_lastParsingResult = "ParsingResult_NeedMoreData"
    /\ m_parsingBuffer = <<>>

\* Well-formed documents among the inputs.
ValidDocs == {Doc_Tree, Doc_OpenClose, Doc_Comment, Doc_DocType, Doc_PiDocType}

\* C3: while what has been written is a strict prefix of a valid document, the
\* tokens surfaced are a prefix of the document's tokens and parse() has not
\* returned Error.
PrefixDeterminism ==
    \A d \in ValidDocs :
        (IsPrefix(written, d) /\ written # d)
            => /\ m_lastParsingResult # "ParsingResult_Error"
               /\ IsPrefix(tokens, Bulk(d).tokens)

\* The XML declaration of the demo document and of the short declarations.
DemoXmlDeclaration ==
    [version |-> <<"1", ".", "0">>, encoding |-> <<"U", "T", "F", "-", "8">>,
     standalone |-> "Yes"]

\* The token parser has read a whole XML declaration: p is what its parse() yields.
FindsXmlDeclaration(p) ==
    p.result = "Result_Success" /\ p.tokenType = "TokenType_XmlDeclaration"

\* The processing instruction parser in use has a whole XML declaration in
\* front of it.
XmlDeclarationPending ==
    /\ m_parsingState = "ParsingState_ReadingProcessingInstruction"
    /\ FindsXmlDeclaration(TokenParser_parse(m_tokenParser, m_parsingBuffer))

\* The result of a parse() call that reads an XML declaration: XmlDeclaration
\* only in DocumentState_PrologWaitForXmlDeclaration, Error in any other state.
XmlDeclarationResultOk(p) ==
    /\ p.result = "ParsingResult_XmlDeclaration"
          => m_documentState = "DocumentState_PrologWaitForXmlDeclaration"
    /\ m_documentState # "DocumentState_PrologWaitForXmlDeclaration"
          => p.result = "ParsingResult_Error"

\* Inputs that end with an XML declaration that is not the first item: after
\* whitespace, after a processing instruction, after an XML declaration.
LateXmlDeclarationDocs == {Doc_WsDecl, Doc_PiDecl, Doc_DeclDecl}

\* The caller's loop ends with Error: d is what Drain yields.
EndsInError(d) == d.final = "ParsingResult_Error"

\* C4: an XML declaration is surfaced at most once and only as the first
\* token, at the very start of the text; parse() returns XmlDeclaration for a
\* declaration read only in DocumentState_PrologWaitForXmlDeclaration and
\* returns Error for one read in any other document state.
XmlDeclarationOnlyFirst ==
    /\ \A i \in 1..Len(tokens) :
          tokens[i].result = "ParsingResult_XmlDeclaration"
              => i = 1 /\ IsPrefix(<<"<", "?">>, written)
    /\ m_lastParsingResult = "ParsingResult_XmlDeclaration"
          => Len(tokens) = 1 /\ m_documentState = "DocumentState_PrologWaitForDocumentType"
    /\ XmlDeclarationPending => XmlDeclarationResultOk(parse(Reader))
    /\ written \in LateXmlDeclarationDocs => EndsInError(Drain(Reader))

\* C4 witness: the first XML declaration was surfaced and the second one,
\* read in DocumentState_PrologWaitForDocumentType, made parse() return Error.
XmlDeclarationOnlyFirstWitness ==
    /\ written = Doc_DeclDecl
    /\ ResultsOf(tokens) = <<"ParsingResult_XmlDeclaration">>
    /\ m_lastParsingResult = "ParsingResult_Error"
    /\ m_documentState = "DocumentState_PrologWaitForDocumentType"
    /\ m_parsingBuffer = <<>>

\* The first items of the downgrade rule: whitespace, a processing
\* instruction, a comment, a DOCTYPE and a start tag.
FirstItems ==
    {SubSeq(Doc_WsRoot, 1, 1), SubSeq(Doc_PiDocType, 1, 5), SubSeq(Doc_Comment, 1, 10),
     SubSeq(Doc_DocType, 1, 12), Doc_Root}

\* C5: each of whitespace, a processing instruction, a comment, a DOCTYPE and
\* a start tag as the first item is accepted (parse() does not return Error)
\* and, once read, has moved the document state out of
\* DocumentState_PrologWaitForXmlDeclaration.
DowngradeRule ==
    \A item \in FirstItems :
        IsPrefix(written, item)
            => /\ m_lastParsingResult # "ParsingResult_Error"
               /\ (written = item /\ m_parsingBuffer = <<>>
                       /\ m_lastParsingResult # "ParsingResult_None")
                      => m_documentState # "DocumentState_PrologWaitForXmlDeclaration"

\* What the demo's loop yields from the current state on: d, after the tokens
\* surfaced so far, completes XmlDeclaration, ProcessingInstruction and ends
\* with NeedMoreData.
DemoOutcome(d) ==
    /\ ResultsOf(tokens \o d.tokens) =
           <<"ParsingResult_XmlDeclaration", "ParsingResult_ProcessingInstruction">>
    /\ d.final = "ParsingResult_NeedMoreData"

\* C6: for the demo's input (an XML declaration immediately followed by a
\* processing instruction) successive parse() calls return XmlDeclaration,
\* ProcessingInstruction and then NeedMoreData, never Error, and after each
\* token result the matching getter holds the token just read.
DemoTokenOrder ==
    IsPrefix(written, Doc_Demo)
        => /\ m_lastParsingResult # "ParsingResult_Error"
           /\ IsPrefix(ResultsOf(tokens),
                       <<"ParsingResult_XmlDeclaration", "ParsingResult_ProcessingInstruction">>)
           /\ Len(tokens) >= 1 => tokens[1].xmlDeclaration = DemoXmlDeclaration
           /\ Len(tokens) >= 2 =>
                 /\ tokens[2].processingInstruction.piTarget =
                        <<"p", "i", "t", "a", "r", "g", "e", "t">>
                 /\ IsPrefix(<<"p", "i", "d", "a", "t", "a">>,
                             tokens[2].processingInstruction.piData)
           /\ m_lastParsingResult = "ParsingResult_XmlDeclaration"
                 => /\ m_xmlDeclaration = DemoXmlDeclaration
                    /\ m_processingInstruction = EmptyProcessingInstruction
           /\ m_lastParsingResult = "ParsingResult_ProcessingInstruction"
                 => m_processingInstruction = tokens[2].processingInstruction
           /\ written = Doc_Demo => DemoOutcome(Drain(Reader))

\* C6 witness: the demo's run: the whole input written in one writeData()
\* call, both tokens surfaced, the last parse() returned NeedMoreData.
DemoTokenOrderWitness ==
    /\ written = Doc_Demo
    /\ nWrites = 1
    /\ ResultsOf(tokens) =
           <<"ParsingResult_XmlDeclaration", "ParsingResult_ProcessingInstruction">>
    /\ m_lastParsingResult = "ParsingResult_NeedMoreData"

\* C7: a start tag read in the prolog (first item, or after whitespace) is
\* surfaced: parse() does not return Error and, once the tag is read, the
\* document state is DocumentState_Element.
StartTagSurfaced ==
    \A d \in {Doc_Root, Doc_WsRoot} :
        IsPrefix(written, d)
            => /\ m_lastParsingResult # "ParsingResult_Error"
               /\ (written = d /\ m_parsingBuffer = <<>>
                       /\ m_lastParsingResult # "ParsingResult_None")
                      => m_documentState = "DocumentState_Element"

\* C8: an end tag that matches the open start tag is accepted, and the end
\* tag that closes the root element leaves the reader out of element content;
\* an end tag that does not match makes parse() return Error.
ElementStackDiscipline ==
    /\ IsPrefix(written, Doc_OpenClose)
          => /\ m_lastParsingResult # "ParsingResult_Error"
             /\ (written = Doc_OpenClose /\ m_parsingBuffer = <<>>
                     /\ m_lastParsingResult # "ParsingResult_None")
                    => m_documentState # "DocumentState_Element"
    /\ written = Doc_Mismatch => Drain(Reader).final = "ParsingResult_Error"

\* C9: the document <r><a/><b>x</b></r> is parsed to its end with no Error:
\* parse() never returns Error on it and, once the whole document is read, six
\* tokens (three start tags, a text node, two end tags) have been surfaced.
TreeParsedToEnd ==
    IsPrefix(written, Doc_Tree)
        => /\ m_lastParsingResult # "ParsingResult_Error"
           /\ (written = Doc_Tree /\ m_parsingBuffer = <<>>
                   /\ m_lastParsingResult # "ParsingResult_None")
                  => Len(tokens) = 6

\* C10: a DOCTYPE read in DocumentState_PrologWaitForDocumentType (here after
\* a processing instruction) is accepted: parse() does not return Error.
DocTypeSurfaced ==
    IsPrefix(written, SubSeq(Doc_PiDocType, 1, 17))
        => m_lastParsingResult # "ParsingResult_Error"

\* The comments among the inputs: as the first item and after a processing
\* instruction.
CommentItems == {SubSeq(Doc_Comment, 1, 10), Doc_PiComment}

\* C11: a comment read in the prolog (as the first item, or after a
\* processing instruction) is accepted: parse() does not return Error while
\* the comment is being written or once it is complete.
CommentSurfaced ==
    \A item \in CommentItems :
        IsPrefix(written, item) => m_lastParsingResult # "ParsingResult_Error"

\* The parsing states in which parse() reads the type of the next token.
TokenTypeStates ==
    {"ParsingState_Idle", "ParsingState_ReadingTokenType",
     "ParsingState_ProcessingInstructionRead", "ParsingState_XmlDeclarationRead"}

\* The token type parser finds a CDATA section or an end tag: p is what its
\* parse() yields.
FindsCDataOrEndOfElement(p) ==
    /\ p.result = "Result_Success"
    /\ p.tokenType \in {"TokenType_CData", "TokenType_EndOfElement"}

\* The next token, after whitespace if any, is a CDATA section or an end tag
\* and the document state is not DocumentState_Element.
CDataOrEndOfElementOutsideElement ==
    /\ m_parsingState \in TokenTypeStates
    /\ m_documentState # "DocumentState_Element"
    /\ FindsCDataOrEndOfElement(
           TokenTypeParser_parse(m_parsingBuffer, "Option_IgnoreLeadingWhitespace"))

\* parse() rejects: p is what it yields.
Rejects(p) ==
    /\ p.result = "ParsingResult_Error"
    /\ p.reader.parsingState = "ParsingState_Error"

\* C12: whenever the token type parser finds a CDATA section or an end tag
\* while the document state is not DocumentState_Element, parse() returns
\* Error; so the inputs with a CDATA section or an end tag outside element
\* content end in Error.
CDataEndTagRejected ==
    /\ CDataOrEndOfElementOutsideElement => Rejects(parse(Reader))
    /\ written \in {Doc_CData, Doc_EndTag} => EndsInError(Drain(Reader))

\* C12 witness: the processing instruction was surfaced and the CDATA section
\* after it, read in DocumentState_PrologWaitForDocumentType, made parse()
\* return Error.
CDataEndTagRejectedWitness ==
    /\ written = Doc_CData
    /\ ResultsOf(tokens) = <<"ParsingResult_ProcessingInstruction">>
    /\ m_documentState = "DocumentState_PrologWaitForDocumentType"
    /\ m_lastParsingResult = "ParsingResult_Error"
    /\ m_parsingState = "ParsingState_Error"

\* C13: clear(), in whatever state it is called, leaves the reader in the
\* state of a newly constructed one (ParsingState_Idle,
\* DocumentState_PrologWaitForXmlDeclaration, last result None, empty XML
\* declaration and processing instruction, no token parser, empty buffer), and
\* after it the reader yields for the text written since what a new reader
\* yields for it.
ClearRestores ==
    /\ [][clears' # clears
             => /\ m_parsingState' = "ParsingState_Idle"
                /\ m_documentState' = "DocumentState_PrologWaitForXmlDeclaration"
                /\ m_lastParsingResult' = "ParsingResult_None"
                /\ m_xmlDeclaration' = EmptyXmlDeclaration
                /\ m_processingInstruction' = EmptyProcessingInstruction
                /\ m_tokenParser' = NoTokenParser
                /\ m_parsingBuffer' = <<>>]_vars
    /\ [](clears > 0 => SameOutcome(Drain(Reader), Bulk(written)))

\* C13 witness: clear() was called on a reader latched in
\* ParsingState_Error, and the reader has since read the whole demo document
\* as a new reader does.
ClearRestoresWitness ==
    /\ clears = 1
    /\ clearedIn = "ParsingState_Error"
    /\ written = Doc_Demo
    /\ ResultsOf(tokens) =
           <<"ParsingResult_XmlDeclaration", "ParsingResult_ProcessingInstruction">>
    /\ m_lastParsingResult = "ParsingResult_NeedMoreData"

\* The parsing states in which parse() returns NeedMoreData, each with the
\* kind of token parser that reads in it.
SuspendedStates ==
    {"ParsingState_ReadingTokenType", "ParsingState_ReadingProcessingInstruction"}

ParserKindOf(parsingState) ==
    IF parsingState = "ParsingState_ReadingTokenType"
    THEN "TokenTypeParser" ELSE "ProcessingInstructionParser"

\* The token parser of reader r reports that it needs more data.
ParserNeedsMoreData(r) ==
    TokenParser_parse(r.tokenParser, r.parsingBuffer).result = "Result_NeedMoreData"

\* parse(), which yielded p, returned NeedMoreData exactly when it left the
\* reader in a Reading* state with a token parser that needs more data.
SuspendsExactly(p) ==
    /\ p.result = "ParsingResult_NeedMoreData" <=> p.reader.parsingState \in SuspendedStates
    /\ p.result = "ParsingResult_NeedMoreData"
          => /\ p.reader.tokenParser.kind = ParserKindOf(p.reader.parsingState)
             /\ ParserNeedsMoreData(p.reader)

\* parse(), which yielded p, left the suspended reader as it was but for the
\* whitespace the token parser skipped.
StaysSuspended(p) ==
    /\ p.result = "ParsingResult_NeedMoreData"
    /\ p.reader.parsingState = m_parsingState
    /\ p.reader.tokenParser = m_tokenParser
    /\ p.reader.documentState = m_documentState

\* The token that starts the buffered text is incomplete: t is what the token
\* type parser yields for the text.
TokenIncomplete(t) ==
    \/ t.result = "Result_NeedMoreData"
    \/ /\ t.result = "Result_Success"
       /\ t.tokenType = "TokenType_ProcessingInstruction"
       /\ ProcessingInstructionParser_parse(t.rest).result = "Result_NeedMoreData"

\* C14: parse() returns NeedMoreData exactly when the token parser in use
\* reports that it needs more data; the reader then stays in its Reading*
\* parsing state with the same token parser, and goes on with the token in
\* progress once more data is written.
SuspensionResumption ==
    /\ SuspendsExactly(parse(Reader))
    /\ m_lastParsingResult = "ParsingResult_NeedMoreData"
          => /\ m_parsingState \in SuspendedStates
             /\ m_tokenParser.kind = ParserKindOf(m_parsingState)
             /\ SameOutcome(Drain(Reader), Bulk(written))
    /\ (m_parsingState \in SuspendedStates /\ ParserNeedsMoreData(Reader))
          => StaysSuspended(parse(Reader))
    /\ (m_parsingState = "ParsingState_ReadingProcessingInstruction"
           /\ ~ParserNeedsMoreData(Reader))
          => parse(Reader).result # "ParsingResult_NeedMoreData"
    /\ (m_parsingState \in TokenTypeStates
           /\ TokenIncomplete(
                  TokenTypeParser_parse(m_parsingBuffer, "Option_IgnoreLeadingWhitespace")))
          => parse(Reader).result = "ParsingResult_NeedMoreData"

\* C14 witness: after the XML declaration of the demo document was surfaced,
\* parse() was suspended inside the processing instruction, part of which is
\* in the buffer, and more data has been written since the first chunk.
SuspensionResumptionWitness ==
    /\ IsPrefix(written, Doc_Demo)
    /\ nWrites = 2
    /\ ResultsOf(tokens) = <<"ParsingResult_XmlDeclaration">>
    /\ m_lastParsingResult = "ParsingResult_NeedMoreData"
    /\ m_parsingState = "ParsingState_ReadingProcessingInstruction"
    /\ m_tokenParser = NewProcessingInstructionParser
    /\ Len(m_parsingBuffer) > 8

\* The most cycles of its loop a parse() call makes: one to set the token
\* type parser, one to read the token type, one for the state it leads to.
ParseCycleLimit == 3

\* The most runs of the token type parser in one
\* executeParsingStateReadingTokenType() call: one that finds whitespace, one
\* that ignores it.
TokenTypeRunLimit == 2

\* The number of cycles the loop of parse() makes from reader r on, counted up
\* to one past ParseCycleLimit.
RECURSIVE CountParseCycles(_, _, _)

CountParseCyclesTest(c, n) ==
    IF c.finishParsing \/ n > ParseCycleLimit THEN n
    ELSE CountParseCycles(c.reader, c.result, n)

CountParseCycles(r, result, n) == CountParseCyclesTest(ParseCycle(r, result), n + 1)

ParseCycles(r) == CountParseCycles(r, "ParsingResult_Error", 0)

\* The number of times the loop of executeParsingStateReadingTokenType() runs
\* the token type parser of reader r, counted up to one past TokenTypeRunLimit.
RECURSIVE CountTokenTypeRuns(_, _)

CountTokenTypeRunsTest(r, p, n) ==
    IF p.result = "Result_Success" /\ p.tokenType = "TokenType_Whitespace"
          /\ n <= TokenTypeRunLimit
    THEN CountTokenTypeRuns(
             [r EXCEPT !.parsingBuffer = p.rest,
                       !.tokenParser =
                           TokenParser_setOption(r.tokenParser,
                                                 "Option_IgnoreLeadingWhitespace").tokenParser],
             n)
    ELSE n

CountTokenTypeRuns(r, n) ==
    CountTokenTypeRunsTest(r, TokenParser_parse(r.tokenParser, r.parsingBuffer), n + 1)

\* The reader r, which is about to read a token type, when it reaches
\* ParsingState_ReadingTokenType.
AtReadingTokenType(r) ==
    IF r.parsingState = "ParsingState_ReadingTokenType" THEN r
    ELSE ParseCycle(r, "ParsingResult_Error").reader

\* C15: from every reachable reader state and buffered text, parse() ends
\* after at most ParseCycleLimit cycles of its loop, the whitespace-skipping
\* loop runs the token type parser at most TokenTypeRunLimit times, and
\* parse() returns one of NeedMoreData, XmlDeclaration, ProcessingInstruction
\* and Error.
ParseTerminates ==
    /\ ParseCycles(Reader) <= ParseCycleLimit
    /\ m_parsingState \in TokenTypeStates
          => CountTokenTypeRuns(AtReadingTokenType(Reader), 0) <= TokenTypeRunLimit
    /\ parse(Reader).result \in ParsingResults \ {"ParsingResult_None"}

\* C15 witness: whitespace and an XML declaration were written to a new
\* reader: the parse() call to come makes the most cycles (set the token type
\* parser, read the token type, read the declaration) and its
\* whitespace-skipping loop runs the token type parser twice.
ParseTerminatesWitness ==
    /\ written = Doc_WsDecl
    /\ m_parsingState = "ParsingState_Idle"
    /\ ParseCycles(Reader) = ParseCycleLimit
    /\ CountTokenTypeRuns(AtReadingTokenType(Reader), 0) = TokenTypeRunLimit
    /\ parse(Reader).result = "ParsingResult_Error"

\* A surfaced token is valid.
TokenValid(token) ==
    /\ token.result = "ParsingResult_ProcessingInstruction"
          => ProcessingInstruction_isValid(token.processingInstruction)
    /\ token.result = "ParsingResult_XmlDeclaration"
          => XmlDeclaration_isValid(token.xmlDeclaration)

\* The token parser has assembled a token that is not valid: p is what its
\* parse() yields.
AssemblesInvalidToken(p) ==
    /\ p.result = "Result_Success"
    /\ \/ /\ p.tokenType = "TokenType_XmlDeclaration"
          /\ ~XmlDeclaration_isValid(p.xmlDeclaration)
       \/ /\ p.tokenType = "TokenType_ProcessingInstruction"
          /\ ~ProcessingInstruction_isValid(p.processingInstruction)

\* The next token, after whitespace if any, is a whole processing instruction
\* or XML declaration that is not valid: t is what the token type parser
\* yields for the buffered text.
InvalidTokenNext(t) ==
    /\ t.result = "Result_Success"
    /\ t.tokenType = "TokenType_ProcessingInstruction"
    /\ AssemblesInvalidToken(ProcessingInstructionParser_parse(t.rest))

\* parse(), which yielded q, rejected the invalid token: Error, and the
\* getters hold no token but one surfaced before (the XML declaration is
\* emptied where it was waited for).
InvalidTokenRejected(q) ==
    /\ q.result = "ParsingResult_Error"
    /\ q.reader.processingInstruction \in {EmptyProcessingInstruction, m_processingInstruction}
    /\ q.reader.xmlDeclaration =
           IF q.reader.documentState = "DocumentState_PrologWaitForXmlDeclaration"
           THEN EmptyXmlDeclaration ELSE m_xmlDeclaration

\* The text of the XML declaration of Doc_BadVersion, whose version is 1.1.
BadVersionDeclaration == SubSeq(Doc_BadVersion, 1, 21)

WriteDataFrame ==
    [][(written' # written /\ clears' = clears)
          => /\ m_parsingBuffer' = m_parsingBuffer \o Drop(written', Len(written))
             /\ m_xmlDeclaration' = m_xmlDeclaration
             /\ m_processingInstruction' = m_processingInstruction
             /\ m_documentState' = m_documentState
             /\ m_parsingState' = m_parsingState
             /\ m_lastParsingResult' = m_lastParsingResult
             /\ m_tokenParser' = m_tokenParser]_vars

\* C17 witness: the XML declaration of the demo document was surfaced and,
\* with more data written in a second writeData() call and no parse() since,
\* xmlDeclaration() still holds it.
WriteDataFrameWitness ==
    /\ written = Doc_Demo
    /\ nWrites = 2
    /\ m_lastParsingResult = "ParsingResult_XmlDeclaration"
    /\ m_parsingState = "ParsingState_XmlDeclarationRead"
    /\ m_xmlDeclaration = DemoXmlDeclaration
    /\ ResultsOf(tokens) = <<"ParsingResult_XmlDeclaration">>
    /\ m_parsingBuffer # <<>>

\* C18: lastParsingResult() is the value the most recent parse() returned;
\* it is None exactly when parse() has not been called since construction or
\* the last clear() (the reader is still in ParsingState_Idle with all the
\* text written in its buffer); parse() never returns None.
LastParsingResult ==
    /\ [](m_lastParsingResult = "ParsingResult_None" <=> m_parsingState = "ParsingState_Idle")
    /\ [](m_lastParsingResult = "ParsingResult_None"
             => /\ Reader = [NewReader EXCEPT !.parsingBuffer = written]
                /\ tokens = <<>>)
    /\ [](parse(Reader).result # "ParsingResult_None")
    /\ [][(written' = written /\ clears' = clears)
             => /\ m_lastParsingResult' = parse(Reader).result
                /\ m_lastParsingResult' # "ParsingResult_None"]_vars
    /\ [][clears' # clears => m_lastParsingResult' = "ParsingResult_None"]_vars

\* C18 witness: parse() failed on text that starts no token, without ever
\* assigning its result: lastParsingResult() is Error, the value the result
\* starts with.
LastParsingResultWitness ==
    /\ written = SubSeq(Doc_Junk, 1, 1)
    /\ m_parsingBuffer = written
    /\ m_lastParsingResult = "ParsingResult_Error"
    /\ m_parsingState = "ParsingState_Error"
    /\ tokens = <<>>

\* The reader as it is but for the leading whitespace of its buffer, which is
\* gone, and for the document state, which no longer waits for an XML
\* declaration.
WithoutLeadingWhitespace ==
    [Reader EXCEPT
        !.parsingBuffer = DropWhitespace(m_parsingBuffer),
        !.documentState = IF m_documentState = "DocumentState_PrologWaitForXmlDeclaration"
                          THEN "DocumentState_PrologWaitForDocumentType"
                          ELSE m_documentState]

\* Two parse() calls, which yielded p and q, returned the same and left the
\* same state, stored tokens and buffer.
SameParse(p, q) ==
    /\ p.result = q.result
    /\ p.reader.parsingState = q.reader.parsingState
    /\ p.reader.documentState = q.reader.documentState
    /\ p.reader.xmlDeclaration = q.reader.xmlDeclaration
    /\ p.reader.processingInstruction = q.reader.processingInstruction
    /\ p.reader.parsingBuffer = q.reader.parsingBuffer

\* What the caller's loop yields for Doc_Pis from the current state on: d,
\* after the tokens surfaced so far, completes the two processing
\* instructions and ends with NeedMoreData.
PisOutcome(d) ==
    /\ ResultsOf(tokens \o d.tokens) =
           <<"ParsingResult_ProcessingInstruction", "ParsingResult_ProcessingInstruction">>
    /\ d.final = "ParsingResult_NeedMoreData"
    /\ d.reader.parsingBuffer = <<>>

\* C19: parse() has no result for whitespace; whitespace in front of a token
\* is skipped in the parse() call that reads the token, which returns what
\* it returns without the whitespace; and after a surfaced XML declaration
\* or processing instruction the token type is read by a parser with
\* Option_IgnoreLeadingWhitespace.  So of processing instructions separated
\* and followed by whitespace, only the processing instructions are surfaced.
WhitespaceNeverSurfaced ==
    /\ parse(Reader).result \in
           {"ParsingResult_NeedMoreData", "ParsingResult_XmlDeclaration",
            "ParsingResult_ProcessingInstruction", "ParsingResult_Error"}
    /\ (m_parsingState \in TokenTypeStates \ {"ParsingState_Idle"}
           /\ m_parsingBuffer # <<>> /\ isWhitespace(m_parsingBuffer[1]))
          => SameParse(parse(Reader), parse(WithoutLeadingWhitespace))
    /\ m_parsingState \in
           {"ParsingState_ProcessingInstructionRead", "ParsingState_XmlDeclarationRead"}
          => ParseCycle(Reader, "ParsingResult_Error").reader.tokenParser =
                 NewTokenTypeParser("Option_IgnoreLeadingWhitespace")
    /\ (m_parsingState = "ParsingState_ReadingTokenType" /\ tokens # <<>>)
          => m_tokenParser = NewTokenTypeParser("Option_IgnoreLeadingWhitespace")
    /\ written = Doc_Pis => PisOutcome(Drain(Reader))
    /\ written = Doc_WsPi
          => ResultsOf(tokens \o Drain(Reader).tokens) = <<"ParsingResult_ProcessingInstruction">>

\* C19 witness: whitespace and a processing instruction were written in one
\* writeData() call to a reader with an empty buffer, and the parse() call
\* that skipped the whitespace surfaced the processing instruction.
WhitespaceNeverSurfacedWitness ==
    /\ written = Doc_WsPi
    /\ nWrites = 1
    /\ ResultsOf(tokens) = <<"ParsingResult_ProcessingInstruction">>
    /\ m_lastParsingResult = "ParsingResult_ProcessingInstruction"
    /\ m_documentState = "DocumentState_PrologWaitForDocumentType"
    /\ m_parsingBuffer = <<>>

\* The processing instruction parser has read a whole processing
\* instruction: p is what its parse() yields.
FindsProcessingInstruction(p) ==
    p.result = "Result_Success" /\ p.tokenType = "TokenType_ProcessingInstruction"

\* The next token, after whitespace if any, is a whole processing
\* instruction: t is what the token type parser yields for the buffered text.
ProcessingInstructionNext(t) ==
    /\ t.result = "Result_Success"
    /\ t.tokenType = "TokenType_ProcessingInstruction"
    /\ FindsProcessingInstruction(ProcessingInstructionParser_parse(t.rest))

\* The parse() call to come reads a whole processing instruction, in a
\* parsing state that keeps the document state.
ProcessingInstructionPending ==
    \/ /\ m_parsingState \in TokenTypeStates \ {"ParsingState_Idle"}
       /\ ProcessingInstructionNext(
              TokenTypeParser_parse(m_parsingBuffer, "Option_IgnoreLeadingWhitespace"))
    \/ /\ m_parsingState = "ParsingState_ReadingProcessingInstruction"
       /\ FindsProcessingInstruction(TokenParser_parse(m_tokenParser, m_parsingBuffer))

\* parse(), called in document state ds, yielded q: the processing
\* instruction was surfaced and the document state is ds, or
\* DocumentState_PrologWaitForDocumentType if ds waited for the XML declaration.
ProcessingInstructionAccepted(ds, q) ==
    /\ q.result = "ParsingResult_ProcessingInstruction"
    /\ q.reader.parsingState = "ParsingState_ProcessingInstructionRead"
    /\ q.reader.documentState =
           IF ds = "DocumentState_PrologWaitForXmlDeclaration"
           THEN "DocumentState_PrologWaitForDocumentType" ELSE ds

\* C20: a processing instruction is accepted in every document state and
\* leaves it unchanged, except that one read in
\* DocumentState_PrologWaitForXmlDeclaration moves it to
\* DocumentState_PrologWaitForDocumentType; and the document state never
\* becomes DocumentState_PrologWaitForXmlDeclaration again but through clear().
ProcessingInstructionPhases ==
    /\ [](ProcessingInstructionPending
             => \A ds \in DocumentStates :
                   ProcessingInstructionAccepted(
                       ds, parse([Reader EXCEPT !.documentState = ds])))
    /\ [](m_lastParsingResult = "ParsingResult_ProcessingInstruction"
             => m_documentState = "DocumentState_PrologWaitForDocumentType")
    /\ [][m_documentState' = "DocumentState_PrologWaitForXmlDeclaration"
             => (m_documentState = "DocumentState_PrologWaitForXmlDeclaration"
                    \/ clears' # clears)]_vars

\* C20 witness: two processing instructions were surfaced: the first one,
\* the first item of the text, moved the document state to
\* DocumentState_PrologWaitForDocumentType and the second one left it there.
ProcessingInstructionPhasesWitness ==
    /\ written = Doc_Pis
    /\ ResultsOf(tokens) =
           <<"ParsingResult_ProcessingInstruction", "ParsingResult_ProcessingInstruction">>
    /\ m_lastParsingResult = "ParsingResult_ProcessingInstruction"
    /\ m_documentState = "DocumentState_PrologWaitForDocumentType"
    /\ m_processingInstruction = [piTarget |-> <<"c">>, piData |-> <<>>]

-----------------------------------------------------------------------------
\* The item parser (XmlItemParser).

\* XmlItemParser::ItemType: what getItemType() can return.
ItemTypes ==
    {"ItemType_None", "ItemType_Whitespace", "ItemType_ProcessingInstruction",
     "ItemType_DocumentType", "ItemType_Comment", "ItemType_StartOfElement"}

\* The item type that the classification table names for each class of item.
ItemTypeOf(class) ==
    CASE class = "TokenType_Whitespace" -> "ItemType_Whitespace"
      [] class = "TokenType_ProcessingInstruction" -> "ItemType_ProcessingInstruction"
      [] class = "TokenType_DocumentType" -> "ItemType_DocumentType"
      [] class = "TokenType_Comment" -> "ItemType_Comment"
      [] class = "TokenType_CData" -> "ItemType_CData"
      [] class = "TokenType_EndOfElement" -> "ItemType_EndOfElement"
      [] class = "TokenType_StartOfElement" -> "ItemType_StartOfElement"
      [] OTHER -> "ItemType_None"

\* The class of the item that starts the text, by the classification table,
\* is an item type the item parser has: c is the classification of the text.
Classifiable(c) ==
    c.result = "Result_Success" => ItemTypeOf(c.tokenType) \in ItemTypes

\* C21: the item parser classifies the item that starts the buffered text by
\* its prefix: <? as ProcessingInstruction, <!-- as Comment, <![CDATA[ as
\* CData, any other <! as DocumentType, </ as EndOfElement, < and a name start
\* character as StartOfElement, whitespace as Whitespace; each of these
\* classes is an item type getItemType() can return.
ItemClassification == Classifiable(ClassifyItem(m_parsingBuffer))

-----------------------------------------------------------------------------
\* The writer.

\* This step is a call of the writer operation named call.
WriterStep(call) == lastCall' = call /\ nCalls' = nCalls + 1

\* The number of places of s where the text t starts.
Occurrences(s, t) == Cardinality({k \in 1..Len(s) : IsPrefix(t, Drop(s, k - 1))})

\* C22: getXmlString() returns the text written so far if and only if the
\* state of the writer is State_DocumentEnded; in every other state it returns
\* an empty string.  The writer is put in each of its states in turn.
GetXmlStringGated ==
    \A state \in WriterStates :
        getXmlString([Writer EXCEPT !.state = state]) =
            IF state = "State_DocumentEnded" THEN m_xmlString ELSE <<>>

\* Text was written, the state is not State_DocumentEnded and getXmlString()
\* returns an empty string.
GetXmlStringGatedWitness ==
    /\ m_xmlString # <<>>
    /\ m_state # "State_DocumentEnded"
    /\ getXmlString(Writer) = <<>>

\* C23: setXmlDeclaration() returns true if and only if the state is
\* State_Empty, and then leaves the state State_DocumentStarted; the XML
\* declaration is in the output at most once, and then it is the first text of
\* the output.
XmlDeclarationOnceAndFirst ==
    /\ [](/\ Occurrences(m_xmlString, XmlDeclarationText) <= 1
          /\ m_xmlDeclarationSet <=> IsPrefix(XmlDeclarationText, m_xmlString)
          /\ Occurrences(m_xmlString, XmlDeclarationText) = 1 => m_xmlDeclarationSet)
    /\ [][WriterStep("setXmlDeclaration") =>
              /\ lastResult' <=> m_state = "State_Empty"
              /\ lastResult' => /\ m_state' = "State_DocumentStarted"
                                /\ m_xmlString' = XmlDeclarationText]_vars

\* The output starts with the XML declaration, more was written after it, and
\* setXmlDeclaration() was called again and returned false.
XmlDeclarationOnceAndFirstWitness ==
    /\ lastCall = "setXmlDeclaration"
    /\ ~lastResult
    /\ IsPrefix(XmlDeclarationText, m_xmlString)
    /\ Len(m_xmlString) > Len(XmlDeclarationText)

\* C24: if a document type is set, the first startElement(name) that succeeds
\* has the name of the document type; with any other name it returns false.
RootNamedAsDocumentType ==
    [][/\ WriterStep("startElement")
       /\ lastResult'
       /\ nStartTags = 0
       /\ m_documentType # <<>>
       => m_currentElementInfo'.name = m_documentType]_vars

\* A start tag starts somewhere in s: < and a name start character.
HasStartTag(s) == \E k \in 1..(Len(s) - 1) : s[k] = "<" /\ isNameStartChar(s[k + 1])

\* C25: setDocumentType() succeeds only when no document type is set and the
\* state is State_Empty or State_DocumentStarted; the output has at most one
\* DOCTYPE, and none after a start tag.
DocumentTypeOnceBeforeRoot ==
    /\ [](/\ Occurrences(m_xmlString, DocTypeOpen) <= 1
          /\ \A k \in 1..Len(m_xmlString) :
                 IsPrefix(DocTypeOpen, Drop(m_xmlString, k - 1)) =>
                     ~HasStartTag(SubSeq(m_xmlString, 1, k)))
    /\ [][WriterStep("setDocumentType") /\ lastResult' =>
              /\ m_documentType = <<>>
              /\ m_state \in {"State_Empty", "State_DocumentStarted"}
              /\ nStartTags = 0
              /\ m_state' = "State_DocumentStarted"]_vars

\* The output has a DOCTYPE and a start tag after it, and setDocumentType()
\* was called again and returned false.
DocumentTypeOnceBeforeRootWitness ==
    /\ lastCall = "setDocumentType"
    /\ ~lastResult
    /\ Occurrences(m_xmlString, DocTypeOpen) = 1
    /\ HasStartTag(m_xmlString)

\* C26: after clearDocument() the writer is as newly constructed, with no
\* document type, and setDocumentType() with a valid name succeeds.
ClearDocumentRestores ==
    lastCall = "clearDocument" =>
        /\ Writer = NewWriter
        /\ setDocumentType(Writer, <<"r">>).success

\* C27: after addProcessingInstruction() succeeds the state is
\* State_DocumentStarted if it was State_Empty, State_InElement if it was
\* State_ElementStarted, and what it was otherwise.
ProcessingInstructionState ==
    [][WriterStep("addProcessingInstruction") /\ lastResult' =>
           m_state' = CASE m_state = "State_Empty" -> "State_DocumentStarted"
                        [] m_state = "State_ElementStarted" -> "State_InElement"
                        [] OTHER -> m_state]_vars

\* C28: after addTextNode() succeeds the start tag is closed and the state is
\* State_InElement; > is written once for each element started; addAttribute()
\* fails once the element has content.
TextNodeClosesStartTag ==
    /\ [][WriterStep("addTextNode") /\ lastResult' =>
              /\ m_state' = "State_InElement"
              /\ ~m_currentElementInfo'.contentEmpty
              /\ nClosed' <= nStartTags]_vars
    /\ [][WriterStep("addAttribute") /\ ~m_currentElementInfo.contentEmpty =>
              ~lastResult']_vars

\* The position of the last < of s, or 0.
LastMarkup(s) ==
    IF Find1(s, "<") = 0
    THEN 0
    ELSE CHOOSE k \in 1..Len(s) : s[k] = "<" /\ \A j \in (k + 1)..Len(s) : s[j] # "<"

\* s ends inside a start tag: the last markup of s is < and a name start
\* character, and no > follows.  (Attribute values with > are not written.)
InOpenStartTag(s) ==
    /\ LastMarkup(s) > 0
    /\ LastMarkup(s) < Len(s)
    /\ isNameStartChar(s[LastMarkup(s) + 1])
    /\ \A j \in LastMarkup(s)..Len(s) : s[j] # ">"

\* C29: the state is State_ElementStarted if and only if the output ends
\* inside a start tag whose > is not written yet.
ElementStartedIffOpenStartTag ==
    m_state = "State_ElementStarted" <=> InOpenStartTag(m_xmlString)

\* C30: the attribute names added to a start tag are unique: addAttribute()
\* succeeds only with a name not in the list, and adds it; the list is emptied
\* whenever the start tag is closed, and is empty unless a start tag is being
\* written.
AttributeNamesUnique ==
    /\ [](/\ \A i, j \in 1..Len(m_attributeNameList) :
                 m_attributeNameList[i] = m_attributeNameList[j] => i = j
          /\ m_state # "State_ElementStarted" => m_attributeNameList = <<>>)
    /\ [][WriterStep("addAttribute") /\ lastResult' =>
              \E name \in {a.name : a \in WriterAttributes} :
                  /\ name \notin Range(m_attributeNameList)
                  /\ m_attributeNameList' = Append(m_attributeNameList, name)]_vars
    /\ [][nClosed' = nClosed + 1 => m_attributeNameList' = <<>>]_vars

\* A start tag with the attribute k was closed and the list is empty again.
AttributeNamesUniqueWitness ==
    /\ nClosed = 1
    /\ Find2(m_xmlString, "k", "=") > 0
    /\ m_attributeNameList = <<>>

\* The value has the quote character that is not the quotation mark, and no
\* other character that is escaped.
HasOnlyOtherQuote(value, quotationMark) ==
    /\ value # <<>>
    /\ \E i \in 1..Len(value) :
           \/ value[i] = "\"" /\ quotationMark = "QuotationMark_Apostrophe"
           \/ value[i] = "'" /\ quotationMark = "QuotationMark_Quote"
    /\ \A i \in 1..Len(value) :
           /\ value[i] \notin {"<", "&"}
           /\ value[i] = "\"" => quotationMark = "QuotationMark_Apostrophe"
           /\ value[i] = "'" => quotationMark = "QuotationMark_Quote"

\* C31: escapeAttValue() leaves a quote character that is not the quotation
\* mark of the attribute as it is and succeeds: for such a value it returns the
\* value, and addAttribute() with a new name and that value returns true while
\* a start tag is being written.
OtherQuoteKept ==
    m_state = "State_ElementStarted" =>
        \A attribute \in WriterAttributes :
            \A quotationMark \in {"QuotationMark_Quote", "QuotationMark_Apostrophe"} :
                /\ HasOnlyOtherQuote(attribute.value, quotationMark)
                /\ ~AttributeNameFound(Writer, attribute.name)
                => /\ escapeAttValue(attribute.value, quotationMark) = attribute.value
                   /\ addAttribute(Writer, attribute, quotationMark).success

\* The operations of the writer that report failure by returning false.
FallibleCalls ==
    {"setXmlDeclaration", "setDocumentType", "addComment", "addProcessingInstruction",
     "startElement", "addAttribute", "addTextNode"}

\* C32: whenever setXmlDeclaration, setDocumentType, addComment,
\* addProcessingInstruction, startElement, addAttribute or addTextNode returns
\* false, the state, the output, the document type, the list of opened
\* elements and the list of attribute names are unchanged.
FailureAtomicity ==
    [][(\E call \in FallibleCalls : WriterStep(call)) /\ ~lastResult' =>
           UNCHANGED <<m_state, m_xmlString, m_documentType, m_openedElementList,
                       m_attributeNameList>>]_vars

\* A call returned false while a start tag with an attribute was being
\* written.
FailureAtomicityWitness ==
    /\ lastCall \in FallibleCalls
    /\ ~lastResult
    /\ m_state = "State_ElementStarted"
    /\ m_attributeNameList # <<>>
    /\ m_xmlString # <<>>

====
